---- MODULE Spec2Model ----
(***************************************************************************)
(* Client prediction / server reconciliation netcode of                    *)
(* bevy_multiplayer_example (src/src/core.rs, server.rs, client.rs,        *)
(* input.rs, main.rs).                                                     *)
(*                                                                         *)
(* Representation.                                                         *)
(*  - Vec3 values are modelled by their X component, an integer in fixed   *)
(*    point.  Velocities are counted in 1/VelScale m/s and translations    *)
(*    in 1/(TickHz*VelScale) m, so that velocity * (one tick) is the       *)
(*    velocity number itself.  Every enumerated input keeps forward,       *)
(*    backward and jump released and yaw in {0, pi}, so the Y and Z        *)
(*    components stay 0 and the rotation by yaw is a sign.                 *)
(*  - A time slice delta_seconds is always the tick delta divided by       *)
(*    positive integers in the code; it is modelled by that integer        *)
(*    divisor (slice = tick / div).                                        *)
(*  - Option<T>: None is <<>> and Some(x) is <<x>>.                        *)
(*  - Wall-clock timestamps are milliseconds on the variable now.          *)
(***************************************************************************)
EXTENDS Integers, Sequences, FiniteSets, TLC

(***************************************************************************)
(* Bounds of the model.                                                    *)
(***************************************************************************)
MaxSnapshots == 3
MaxMessages == 4
MaxBatchLen == 2
MaxDeliveries == 2

(***************************************************************************)
(* Program constants.                                                      *)
(***************************************************************************)
CHARACTER_SPEED == 5
CHARACTER_ACCEL == 8
CHARACTER_FRICTION == 8
TickHz == 64
RetainMillis == 1000
CorrectionThresholdInv == 10000
VelScale == 8

None == <<>>
Some(x) == <<x>>
IsSome(o) == o # <<>>
Unwrap(o) == o[1]

Abs(x) == IF x < 0 THEN -x ELSE x
Sgn(x) == IF x < 0 THEN -1 ELSE IF x > 0 THEN 1 ELSE 0
Max(a, b) == IF a >= b THEN a ELSE b
Min(a, b) == IF a < b THEN a ELSE b

\* Truncating division of a signed fixed-point number.
TruncDiv(x, d) == Sgn(x) * (Abs(x) \div d)

RECURSIVE GCD(_, _)
GCD(a, b) == IF b = 0 THEN a ELSE GCD(b, a % b)

RECURSIVE SeqSum(_)
SeqSum(s) == IF s = <<>> THEN 0 ELSE Head(s) + SeqSum(Tail(s))

RECURSIVE Flatten(_)
Flatten(ss) == IF ss = <<>> THEN <<>> ELSE Head(ss) \o Flatten(Tail(ss))

SeqMap(F(_), s) == [i \in 1..Len(s) |-> F(s[i])]

RECURSIVE SeqFilter(_, _)
SeqFilter(P(_), s) ==
    IF s = <<>> THEN <<>>
    ELSE (IF P(Head(s)) THEN <<Head(s)>> ELSE <<>>) \o SeqFilter(P, Tail(s))

\* The elements of a finite set of numbers, ascending.
RECURSIVE SetToSeq(_)
SetToSeq(S) ==
    IF S = {} THEN <<>>
    ELSE LET m == CHOOSE x \in S : \A y \in S : x <= y
         IN  <<m>> \o SetToSeq(S \ {m})

\* Index of the first element satisfying P, 0 when there is none (Iterator::find).
FindIndex(P(_), s) ==
    IF \E i \in 1..Len(s) : P(s[i])
    THEN CHOOSE i \in 1..Len(s) : P(s[i]) /\ \A j \in 1..(i - 1) : ~P(s[j])
    ELSE 0

(***************************************************************************)
(* core.rs: PlayerInput and the movement model.                            *)
(***************************************************************************)
PlayerInput(id, left, right, pitch, yaw, timestamp) ==
    [id |-> id, forward |-> FALSE, backward |-> FALSE, left |-> left,
     right |-> right, jump |-> FALSE, pitch |-> pitch, yaw |-> yaw,
     final_translation |-> 0, timestamp |-> timestamp]

\* X component of Quat::from_rotation_y(yaw).mul_vec3(Vec3::X); yaw is 0 or 1 (pi).
RotateX(yaw) == IF yaw = 0 THEN 1 ELSE -1

compute_move_direction(input, yaw) ==
    LET l == IF input.left THEN -RotateX(yaw) ELSE 0
        r == IF input.right THEN RotateX(yaw) ELSE 0
        direction == l + r
    IN  IF Abs(direction) > 0 THEN Sgn(direction) ELSE direction

accelerate(wish_direction, wish_speed, current_speed, accel, div) ==
    LET add_speed == wish_speed - current_speed
        accel_speed == (accel * wish_speed) \div (TickHz * div)
    IN  IF add_speed <= 0 THEN 0
        ELSE wish_direction * Min(accel_speed, add_speed)

deccelerate(velocity, current_speed, friction, div) ==
    LET drop == (current_speed * friction) \div (TickHz * div)
        new_speed == IF current_speed - drop < 0 THEN 0 ELSE current_speed - drop
    IN  IF new_speed = 0 THEN 0
        ELSE TruncDiv(velocity * new_speed, current_speed)

\* The movement turned by the yaw the character already had, not by the
\* yaw of the input.
process_input_own_yaw(c, input, div) ==
    LET v1 == deccelerate(c.velocity, Abs(c.velocity), CHARACTER_FRICTION, div)
        wish == compute_move_direction(input, c.yaw)
        v2 == v1 + accelerate(wish, CHARACTER_SPEED * VelScale, Abs(v1),
                              CHARACTER_ACCEL, div)
        t2 == c.translation + TruncDiv(v2, div)
    IN  [character |-> [c EXCEPT !.pitch = input.pitch, !.yaw = input.yaw,
                                 !.velocity = v2, !.translation = t2],
         input |-> [input EXCEPT !.final_translation = t2]]

\* Character::process_input on a character record c (owner_client_id,
\* translation, velocity, pitch, yaw); returns the character and the input
\* with its final_translation recorded.
process_input(c, input, div) ==
    LET v1 == deccelerate(c.velocity, Abs(c.velocity), CHARACTER_FRICTION, div)
        wish == compute_move_direction(input, input.yaw)
        v2 == v1 + accelerate(wish, CHARACTER_SPEED * VelScale, Abs(v1),
                              CHARACTER_ACCEL, div)
        t2 == c.translation + TruncDiv(v2, div)
    IN  [character |-> [c EXCEPT !.pitch = input.pitch, !.yaw = input.yaw,
                                 !.velocity = v2, !.translation = t2],
         input |-> [input EXCEPT !.final_translation = t2]]

Character(owner, translation, velocity) ==
    [owner_client_id |-> owner, translation |-> translation,
     velocity |-> velocity, pitch |-> 0, yaw |-> 0]

(***************************************************************************)
(* core.rs: Snapshot and CharacterSnapshot.                                *)
(***************************************************************************)
\* A snapshot entry that keeps the translation only.
from_character_translation_only(c) ==
    [client_id |-> c.owner_client_id, translation |-> Some(c.translation),
     velocity |-> None]

from_character(c) ==
    [client_id |-> c.owner_client_id, translation |-> Some(c.translation),
     velocity |-> Some(c.velocity)]

CharacterSnapshotApply(cs, c) ==
    LET c1 == IF IsSome(cs.translation)
              THEN [c EXCEPT !.translation = Unwrap(cs.translation)] ELSE c
    IN  IF IsSome(cs.velocity)
        THEN [c1 EXCEPT !.velocity = Unwrap(cs.velocity)] ELSE c1

DiffField(new, old) ==
    IF IsSome(new) /\ IsSome(old)
    THEN (IF Unwrap(new) # Unwrap(old) THEN Some(Unwrap(new)) ELSE None)
    ELSE None

\* A diff that forgets the velocity.
CharacterSnapshotDiffNoVelocity(new, old) ==
    [client_id |-> new.client_id,
     translation |-> DiffField(new.translation, old.translation),
     velocity |-> None]

CharacterSnapshotDiff(new, old) ==
    [client_id |-> new.client_id,
     translation |-> DiffField(new.translation, old.translation),
     velocity |-> DiffField(new.velocity, old.velocity)]

\* No entry counts as a no-op.
is_empty_never(cs) == FALSE

is_empty(cs) == cs.translation = None /\ cs.velocity = None

\* Every snapshot is numbered 0.
MakeSnapshotUnnumbered(id, input_id, entries, timestamp) ==
    [id |-> 0, latest_processed_input_id |-> input_id,
     character_snapshots |-> entries, timestamp |-> timestamp]

MakeSnapshot(id, input_id, entries, timestamp) ==
    [id |-> id, latest_processed_input_id |-> input_id,
     character_snapshots |-> entries, timestamp |-> timestamp]

RECURSIVE DiffEntries(_, _)
DiffEntries(news, olds) ==
    IF news = <<>> THEN <<>>
    ELSE LET snapshot == Head(news)
             k == FindIndex(LAMBDA o : o.client_id = snapshot.client_id, olds)
             here == IF k # 0
                     THEN (LET diff == CharacterSnapshotDiff(snapshot, olds[k])
                           IN  IF ~is_empty(diff) THEN <<diff>> ELSE <<>>)
                     ELSE <<snapshot>>
         IN  here \o DiffEntries(Tail(news), olds)

SnapshotDiff(new, old) ==
    [id |-> new.id, timestamp |-> new.timestamp,
     latest_processed_input_id |-> new.latest_processed_input_id,
     character_snapshots |-> DiffEntries(new.character_snapshots,
                                         old.character_snapshots)]


(***************************************************************************)
(* State.                                                                  *)
(***************************************************************************)
VARIABLES
    \* ---- snapshot diff engine exercised on its own (core.rs)
    dNew,              \* the Snapshot being sent (self in Snapshot::diff)
    dOld,              \* the baseline Snapshot (old in Snapshot::diff)
    dDiff,             \* Option: the result of Snapshot::diff(dNew, dOld)
    dCharacters,       \* characters the diff entries are applied to
    \* ---- the clock
    now,               \* SystemTime::now() in milliseconds
    \* ---- the server (server.rs)
    server_clients,    \* RenetServer::clients_id(): the connected clients
    server_events,     \* ServerEvent queue read by handle_connection_events_system
    server_inbox,      \* per client, unreliable messages the transport holds
    input_buffer,      \* PlayerInputCache.inputs: client id -> PlayerInputCacheEntry
    characters,        \* the server's (Character, Transform) entities, spawn order
    snapshot_history,  \* SnapshotHistory {snapshots, next_id}
    server_pc,         \* schedule of the fixed tick: "pre", "update", "post"
    server_pre_done,   \* FixedPreUpdate systems that already ran this tick
    reliable_sent,     \* every reliable send_message call so far, in order
    snapshots_sent,    \* the unreliable send_message calls of the last snapshot_send_system
    applied_steps,     \* the process_input calls of the last input_processing_system
    env_next_input,    \* per client, the next input id its InputHistory hands out
    env_seen,          \* clients that have connected at some time
    env_messages,      \* number of PlayerInputMessages sent so far
    env_stalls,        \* number of late ticks still to come
    env_heard,         \* per client, the ids of the snapshots sent to it
    \* ---- one client (client.rs, input.rs)
    client_characters, \* the client's (Character, Transform) entities, spawn order
    input_history,     \* the InputHistory resource
    client_reliable,   \* reliable messages the RenetClient holds, not yet received
    client_unreliable, \* unreliable messages the RenetClient holds, not yet received
    client_sent,       \* Option: the message of the last send_inputs_system
    client_pc,         \* "frame" between fixed ticks, then "update", "post"
    client_ticks,      \* number of fixed ticks run
    client_frames,     \* number of Update frames since the last fixed tick
    client_deliveries, \* number of snapshot messages delivered so far
    client_ignored,    \* ids of the snapshots this tick's receive_snapshot_system skipped
    client_corrected,  \* the corrections of this tick's receive_snapshot_system
    \* ---- the application (main.rs)
    cli,               \* the Cli variant the process was started with
    \* ---- the visual smoother on its own (main.rs)
    vis_characters,    \* the (Character, Transform) entities the visuals follow
    visuals,           \* the (CharacterVisuals, Transform) entities
    last_physics_update, \* LastPhysicsUpdate.time in milliseconds
    vis_pc,            \* "frame" between fixed ticks, "post" inside FixedPostUpdate
    vis_ticks,         \* number of fixed ticks run
    vis_frames,        \* number of Update frames since the last fixed tick
    \* ---- the movement model on its own (core.rs)
    run_a,             \* first run: the character and the inputs processed so far
    run_b,             \* second run, fed the same flags, angles and time slices
    \* ---- one client and the snapshots built for it (server.rs, client.rs)
    link_client,       \* the client state [characters, input_history, ignored, corrected]
    link_history,      \* snapshot id -> the full snapshot the server built with that id
    link_message,      \* Option: the last snapshot message delivered, with its baseline
    link_sent,         \* Option: the last PlayerInputMessage of the client
    link_pc            \* "frame" between fixed ticks, then "update", "post"

diffVars == <<dNew, dOld, dDiff, dCharacters>>
serverVars == <<server_clients, server_events, server_inbox, input_buffer,
                characters, snapshot_history, server_pc, server_pre_done,
                reliable_sent, snapshots_sent, applied_steps, env_next_input,
                env_seen, env_messages, env_stalls, env_heard>>
clientVars == <<client_characters, input_history, client_reliable,
                client_unreliable, client_sent, client_pc, client_ticks, client_frames,
                client_deliveries, client_ignored, client_corrected>>
visualVars == <<vis_characters, visuals, last_physics_update, vis_pc, vis_ticks,
                vis_frames>>
moveVars == <<run_a, run_b>>
linkVars == <<link_client, link_history, link_message, link_sent, link_pc>>
frameVars == <<cli, visualVars, moveVars, linkVars>>
vars == <<diffVars, now, serverVars, clientVars, frameVars>>

(***************************************************************************)
(* Applying snapshot entries to characters the way the client does for     *)
(* entities it does not predict: client.rs 99-104 and 155.                 *)
(***************************************************************************)
ApplyEntry(chars, cs) ==
    LET k == FindIndex(LAMBDA c : c.owner_client_id = cs.client_id, chars)
    IN  IF k = 0 THEN chars
        ELSE [chars EXCEPT ![k] = CharacterSnapshotApply(cs, chars[k])]

RECURSIVE ApplyEntries(_, _)
ApplyEntries(chars, entries) ==
    IF entries = <<>> THEN chars
    ELSE ApplyEntries(ApplyEntry(chars, Head(entries)), Tail(entries))

\* The diff exercise at rest, for the specifications that do not run it.
InitDiffIdle ==
    /\ dNew = MakeSnapshot(0, None, <<>>, 0)
    /\ dOld = MakeSnapshot(0, None, <<>>, 0)
    /\ dDiff = Some(MakeSnapshot(0, None, <<>>, 0))
    /\ dCharacters = <<>>

(***************************************************************************)
(* The client at start-up: client.rs 24-44, input.rs 17.                   *)
(***************************************************************************)
local_player == 1

\* InputHistory::default (core.rs 51-70).
NewInputHistory ==
    [next_id |-> 0,
     input_group_for_next_fixed_tick |-> <<>>,
     inputs_for_next_send |-> <<>>,
     input_groups |-> <<>>,
     latest_processed_input_id |-> 0,
     latest_processed_snapshot_id |-> None]

InitClient ==
    /\ client_characters = <<>>
    /\ input_history = NewInputHistory
    /\ client_reliable = <<>>
    /\ client_unreliable = <<>>
    /\ client_sent = None
    /\ client_pc = "frame"
    /\ client_ticks = 0
    /\ client_frames = 0
    /\ client_deliveries = 0
    /\ client_ignored = <<>>
    /\ client_corrected = <<>>

(***************************************************************************)
(* The server: server.rs.                                                  *)
(***************************************************************************)
Clients == {1, 2}
AuthorityId == 0
\* Wall-clock milliseconds between two runs of the fixed tick: the tick
\* period (1000 / TickHz, rounded up), or a second when the frame stalls.
TickMillis == (1000 \div TickHz) + 1
TimeSteps == {TickMillis, RetainMillis}

EmptyMap == <<>>
\* Every entry goes, whichever key is named.
RemoveEveryKey(f, k) == <<>>

RemoveKey(f, k) == [x \in DOMAIN f \ {k} |-> f[x]]

NewCacheEntry ==
    [input_groups |-> <<>>, latest_processed_input |-> None,
     client_latest_processed_snapshot_id |-> None]

InitClock == now = 2 * RetainMillis

\* A listen server after Startup: spawn_authority_character_system has spawned
\* the host's character, nobody is connected.
InitServer ==
    /\ server_clients = {}
    /\ server_events = <<>>
    /\ server_inbox = [c \in Clients |-> <<>>]
    /\ input_buffer = EmptyMap
    /\ characters = <<Character(AuthorityId, 0, 0)>>
    /\ snapshot_history = [snapshots |-> <<>>, next_id |-> 0]
    /\ server_pc = "pre"
    /\ server_pre_done = {}
    /\ reliable_sent = <<>>
    /\ snapshots_sent = <<>>
    /\ applied_steps = <<>>
    /\ env_next_input = [c \in Clients |-> 0]
    /\ env_seen = {}
    /\ env_messages = 0
    /\ env_heard = [c \in Clients |-> {}]

\* ---- handle_connection_events_system (server.rs 61-109) ------------------

SpawnCharacterMsg(to, client_id, translation, velocity) ==
    [to |-> to, client_id |-> client_id, translation |-> translation,
     velocity |-> velocity]

\* The sends of one ClientConnected event; chars is the characters query,
\* which does not see entities whose spawn is still a deferred command.
ConnectedSends(client_id, chars) ==
    <<SpawnCharacterMsg(client_id, client_id, 0, 0)>> \o
    [i \in 1..Len(chars) |->
        SpawnCharacterMsg(client_id, chars[i].owner_client_id,
                          chars[i].translation, chars[i].velocity)]

HandleEvent(event, chars, acc) ==
    IF event.type = "ClientConnected"
    THEN [acc EXCEPT !.spawned = Append(@, Character(event.client_id, 0, 0)),
                     !.sent = @ \o ConnectedSends(event.client_id, chars)]
    ELSE [acc EXCEPT !.inputs = RemoveKey(@, event.client_id)]

RECURSIVE HandleEvents(_, _, _)
HandleEvents(events, chars, acc) ==
    IF events = <<>> THEN acc
    ELSE HandleEvents(Tail(events), chars, HandleEvent(Head(events), chars, acc))

ServerTickMayStart == snapshot_history.next_id < MaxSnapshots

\* FixedUpdate starts as soon as one system of FixedPreUpdate has run.
PreDoneAfterFirst(system) == server_pc' = "update" /\ server_pre_done' = {}

PreDone(system) ==
    IF server_pre_done \cup {system} = {"connection", "receive"}
    THEN server_pc' = "update" /\ server_pre_done' = {}
    ELSE server_pc' = server_pc /\ server_pre_done' = server_pre_done \cup {system}

handle_connection_events_system ==
    /\ server_pc = "pre"
    /\ "connection" \notin server_pre_done
    /\ ServerTickMayStart
    /\ LET r == HandleEvents(server_events, characters,
                             [spawned |-> <<>>, sent |-> <<>>, inputs |-> input_buffer])
       IN  /\ characters' = characters \o r.spawned
           /\ reliable_sent' = reliable_sent \o r.sent
           /\ input_buffer' = r.inputs
    /\ server_events' = <<>>
    /\ PreDone("connection")
    /\ UNCHANGED <<diffVars, frameVars, clientVars, now, server_clients, server_inbox, snapshot_history,
                   snapshots_sent, applied_steps, env_next_input, env_seen,
                   env_messages, env_stalls, env_heard>>

\* ---- receive_inputs_system (server.rs 111-136) ----------------------------

\* bincode round trip of a PlayerInput: the #[serde(skip)] fields are not sent
\* and come back as their defaults.
DeserializeInput(input) == [input EXCEPT !.final_translation = 0, !.timestamp = 0]

\* The batch received takes the place of the queue.
ReceiveMessageReplacing(entry, message) ==
    [entry EXCEPT
        !.client_latest_processed_snapshot_id = message.latest_processed_snapshot_id,
        !.input_groups = <<SeqMap(DeserializeInput, message.inputs)>>]

\* server.rs 119-130: one PlayerInputMessage.
ReceiveMessage(entry, message) ==
    [entry EXCEPT
        !.client_latest_processed_snapshot_id = message.latest_processed_snapshot_id,
        !.input_groups = Append(@, SeqMap(DeserializeInput, message.inputs))]

RECURSIVE ReceiveMessages(_, _)
ReceiveMessages(entry, messages) ==
    IF messages = <<>> THEN entry
    ELSE ReceiveMessages(ReceiveMessage(entry, Head(messages)), Tail(messages))

receive_inputs_system ==
    /\ server_pc = "pre"
    /\ "receive" \notin server_pre_done
    /\ ServerTickMayStart
    /\ LET got == {c \in server_clients : server_inbox[c] # <<>>}
       IN  input_buffer' =
               [c \in DOMAIN input_buffer \cup got |->
                   IF c \in got
                   THEN ReceiveMessages(IF c \in DOMAIN input_buffer
                                        THEN input_buffer[c] ELSE NewCacheEntry,
                                        server_inbox[c])
                   ELSE input_buffer[c]]
    /\ server_inbox' = [c \in Clients |->
                           IF c \in server_clients THEN <<>> ELSE server_inbox[c]]
    /\ PreDone("receive")
    /\ UNCHANGED <<diffVars, frameVars, clientVars, now, server_clients, server_events, characters,
                   snapshot_history, reliable_sent, snapshots_sent, applied_steps,
                   env_next_input, env_seen, env_messages, env_stalls, env_heard>>

\* ---- input_processing_system (server.rs 216-244) --------------------------

\* One process_input call: the character's owner, the input's id, the slice
\* divisor, and whether the input came from the queue (server.rs 237) or is
\* the re-applied last input (server.rs 225).
Step(owner, id, div, queued) ==
    [owner |-> owner, id |-> id, div |-> div, queued |-> queued]

\* acc: [character, latest, steps]; one input_group applied with slice tick/div.
RECURSIVE ProcessGroup(_, _, _)
ProcessGroup(acc, input_group, div) ==
    IF input_group = <<>> THEN acc
    ELSE LET r == process_input(acc.character, Head(input_group), div)
         IN  ProcessGroup(
                 [character |-> r.character, latest |-> Some(r.input),
                  steps |-> Append(acc.steps,
                                   Step(acc.character.owner_client_id, r.input.id,
                                        div, TRUE))],
                 Tail(input_group), div)

\* Every entry gets the slice of its batch, however many entries share it.
RECURSIVE ProcessGroupsUnsliced(_, _, _)
ProcessGroupsUnsliced(acc, input_groups, chopped_div) ==
    IF input_groups = <<>> THEN acc
    ELSE LET input_group == Head(input_groups)
             acc1 == IF input_group = <<>> THEN acc
                     ELSE ProcessGroup(acc, input_group, chopped_div)
         IN  ProcessGroupsUnsliced(acc1, Tail(input_groups), chopped_div)

RECURSIVE ProcessGroups(_, _, _)
ProcessGroups(acc, input_groups, chopped_div) ==
    IF input_groups = <<>> THEN acc
    ELSE LET input_group == Head(input_groups)
             acc1 == IF input_group = <<>> THEN acc
                     ELSE ProcessGroup(acc, input_group,
                                       chopped_div * Len(input_group))
         IN  ProcessGroups(acc1, Tail(input_groups), chopped_div)

\* A character whose owner has nothing queued stays where it is.
ProcessEntryFrozen(c, cache_entry) ==
    LET acc0 == [character |-> c, latest |-> cache_entry.latest_processed_input,
                 steps |-> <<>>]
    IN  IF cache_entry.input_groups = <<>>
        THEN acc0 @@ [input_groups |-> <<>>]
        ELSE ProcessGroups(acc0, cache_entry.input_groups,
                           Len(cache_entry.input_groups))
             @@ [input_groups |-> <<>>]

\* The loop body for one character, with its owner's cache entry.
ProcessEntry(c, cache_entry) ==
    LET acc0 == [character |-> c, latest |-> cache_entry.latest_processed_input,
                 steps |-> <<>>]
    IN  IF cache_entry.input_groups = <<>>
        THEN (IF IsSome(cache_entry.latest_processed_input)
              THEN LET r == process_input(c, Unwrap(cache_entry.latest_processed_input), 1)
                   IN  [character |-> r.character, latest |-> Some(r.input),
                        steps |-> <<Step(c.owner_client_id, r.input.id, 1, FALSE)>>,
                        input_groups |-> <<>>]
              ELSE [acc0 EXCEPT !.steps = <<>>] @@ [input_groups |-> <<>>])
        ELSE ProcessGroups(acc0, cache_entry.input_groups,
                           Len(cache_entry.input_groups))
             @@ [input_groups |-> <<>>]

\* acc: [characters, inputs, steps]
RECURSIVE ProcessCharacters(_, _)
ProcessCharacters(todo, acc) ==
    IF todo = <<>> THEN acc
    ELSE LET c == Head(todo)
             owner == c.owner_client_id
         IN  IF owner \in DOMAIN acc.inputs
             THEN LET r == ProcessEntry(c, acc.inputs[owner])
                  IN  ProcessCharacters(Tail(todo),
                         [characters |-> Append(acc.characters, r.character),
                          inputs |-> [acc.inputs EXCEPT ![owner] =
                                         [@ EXCEPT !.input_groups = r.input_groups,
                                                   !.latest_processed_input = r.latest]],
                          steps |-> acc.steps \o r.steps])
             ELSE ProcessCharacters(Tail(todo),
                         [acc EXCEPT !.characters = Append(@, c)])

input_processing_system ==
    /\ server_pc = "update"
    /\ LET r == ProcessCharacters(characters,
                    [characters |-> <<>>, inputs |-> input_buffer, steps |-> <<>>])
       IN  /\ characters' = r.characters
           /\ input_buffer' = r.inputs
           /\ applied_steps' = r.steps
    /\ server_pc' = "post"
    /\ UNCHANGED <<diffVars, frameVars, clientVars, now, server_clients, server_events, server_inbox,
                   snapshot_history, server_pre_done, reliable_sent, snapshots_sent,
                   env_next_input, env_seen, env_messages, env_stalls, env_heard>>

\* ---- snapshot_send_system (server.rs 138-214) -----------------------------

Retained(snapshots, time) ==
    SeqFilter(LAMBDA snapshot : snapshot.timestamp > time - RetainMillis, snapshots)

\* The diff is taken against the newest snapshot of the history, whatever the
\* client acknowledged.
SnapshotForNewest(snapshot, player_inputs, history) ==
    LET mine == [snapshot EXCEPT !.latest_processed_input_id =
                    IF IsSome(player_inputs.latest_processed_input)
                    THEN Some(Unwrap(player_inputs.latest_processed_input).id)
                    ELSE None]
    IN  IF IsSome(player_inputs.client_latest_processed_snapshot_id) /\ history # <<>>
        THEN SnapshotDiff(mine, history[Len(history)])
        ELSE mine

\* The processed-input id is written for the first client served only and
\* stays in the snapshot for the clients after it.
MarkForFirst(snapshot, player_inputs) ==
    IF snapshot.latest_processed_input_id # None THEN snapshot
    ELSE [snapshot EXCEPT !.latest_processed_input_id =
              IF IsSome(player_inputs.latest_processed_input)
              THEN Some(Unwrap(player_inputs.latest_processed_input).id)
              ELSE None]

\* server.rs 169-174: the tick's snapshot gets the id of the last input
\* applied for the client, or None.
MarkFor(snapshot, player_inputs) ==
    [snapshot EXCEPT !.latest_processed_input_id =
        IF IsSome(player_inputs.latest_processed_input)
        THEN Some(Unwrap(player_inputs.latest_processed_input).id)
        ELSE None]

\* The message sent to one client that has a cache entry (server.rs 169-207).
SnapshotFor(snapshot, player_inputs, history) ==
    LET mine == MarkFor(snapshot, player_inputs)
        acked == player_inputs.client_latest_processed_snapshot_id
        k == IF IsSome(acked)
             THEN FindIndex(LAMBDA old : old.id = Unwrap(acked), history)
             ELSE 0
    IN  IF k # 0 THEN SnapshotDiff(mine, history[k]) ELSE mine

\* server.rs 167-208: the loop over the clients; the one snapshot of the tick
\* is marked for each client in turn and goes on to the next as it is.
RECURSIVE SnapshotSendLoop(_, _, _)
SnapshotSendLoop(snapshot, to, history) ==
    IF to = <<>> THEN <<>>
    ELSE LET marked == MarkFor(snapshot, input_buffer[Head(to)])
         IN  <<[to |-> Head(to),
                message |-> SnapshotFor(marked, input_buffer[Head(to)], history)]>>
                 \o SnapshotSendLoop(marked, Tail(to), history)

SnapshotSends(snapshot, history) ==
    SnapshotSendLoop(snapshot, SetToSeq(server_clients \cap DOMAIN input_buffer), history)

snapshot_send_system ==
    /\ server_pc = "post"
    /\ \E elapsed \in TimeSteps :
        /\ elapsed > TickMillis => env_stalls > 0
        /\ env_stalls' = IF elapsed > TickMillis THEN env_stalls - 1 ELSE env_stalls
        /\ now' = now + elapsed
        /\ LET snapshot == MakeSnapshot(snapshot_history.next_id, None,
                                        SeqMap(from_character, characters), now')
               history == Retained(snapshot_history.snapshots, now')
           IN  /\ snapshots_sent' = SnapshotSends(snapshot, history)
               /\ env_heard' =
                      [c \in Clients |->
                          IF c \in server_clients \cap DOMAIN input_buffer
                          THEN env_heard[c] \cup {snapshot.id} ELSE env_heard[c]]
               /\ snapshot_history' =
                      [snapshots |-> Append(history, snapshot),
                       next_id |-> snapshot_history.next_id + 1]
    /\ server_pc' = "pre"
    /\ UNCHANGED <<diffVars, frameVars, clientVars, server_clients, server_events, server_inbox,
                   input_buffer, characters, server_pre_done, reliable_sent,
                   applied_steps, env_next_input, env_seen, env_messages>>

\* ---- the transport and the clients, as the server sees them ---------------

AtTickBoundary == server_pc = "pre" /\ server_pre_done = {} /\ ServerTickMayStart

ClientConnects(c) ==
    /\ AtTickBoundary
    /\ c \notin env_seen
    /\ env_seen' = env_seen \cup {c}
    /\ server_clients' = server_clients \cup {c}
    /\ server_events' = Append(server_events, [type |-> "ClientConnected", client_id |-> c])
    /\ UNCHANGED <<diffVars, frameVars, clientVars, now, server_inbox, input_buffer, characters,
                   snapshot_history, server_pc, server_pre_done, reliable_sent,
                   snapshots_sent, applied_steps, env_next_input, env_messages,
                   env_stalls, env_heard>>

ClientDisconnects(c) ==
    /\ AtTickBoundary
    /\ c \in server_clients
    /\ server_clients' = server_clients \ {c}
    /\ server_events' = Append(server_events, [type |-> "ClientDisconnected", client_id |-> c])
    /\ server_inbox' = [server_inbox EXCEPT ![c] = <<>>]
    /\ UNCHANGED <<diffVars, frameVars, clientVars, now, input_buffer, characters, snapshot_history,
                   server_pc, server_pre_done, reliable_sent, snapshots_sent,
                   applied_steps, env_next_input, env_seen, env_messages, env_stalls, env_heard>>

\* What the player holds while input id is captured: <<left, right, yaw>>.
\* Right, then right after turning round (yaw = pi), then nothing.
InputKeys == <<<<FALSE, TRUE, 0>>, <<FALSE, TRUE, 1>>, <<FALSE, FALSE, 1>>>>
KeyOf(id) == InputKeys[(id % Len(InputKeys)) + 1]

CapturedInput(id, timestamp) ==
    PlayerInput(id, KeyOf(id)[1], KeyOf(id)[2], 0, KeyOf(id)[3], timestamp)

\* A PlayerInputMessage of len inputs with fresh consecutive ids,
\* acknowledging snapshot ack, reaches the server's transport.
ClientSendsInputs(c, ack, len) ==
    /\ AtTickBoundary
    /\ c \in server_clients
    /\ env_messages < MaxMessages
    /\ env_messages' = env_messages + 1
    /\ server_inbox' = [server_inbox EXCEPT ![c] = Append(@,
           [latest_processed_snapshot_id |-> ack,
            inputs |-> [i \in 1..len |->
                           CapturedInput(env_next_input[c] + i - 1, now)]])]
    /\ env_next_input' = [env_next_input EXCEPT ![c] = @ + len]
    /\ UNCHANGED <<diffVars, frameVars, clientVars, now, server_clients, server_events, input_buffer,
                   characters, snapshot_history, server_pc, server_pre_done,
                   reliable_sent, snapshots_sent, applied_steps, env_seen, env_stalls, env_heard>>

\* A client acknowledges nothing, or a snapshot that was sent to it; loss,
\* duplication and reordering of its messages make any of them possible.
AckChoices(c) == {None} \cup {Some(i) : i \in env_heard[c]}

(***************************************************************************)
(* The application: main.rs 52-146.  A process is started as one Cli       *)
(* variant, which fixes the plugins and so the systems it runs.            *)
(***************************************************************************)
ServerVariants == {"ListenServer"}
ClientVariants == {"Client"}
AuthorityVariants == {"SinglePlayer", "ListenServer"}

\* LocalPlayer.client_id: main.rs 69-71, server.rs 52, client.rs 40.
LocalPlayerId == IF cli \in AuthorityVariants THEN AuthorityId ELSE local_player

\* LocalPlayer::is_authority (core.rs 84-86).
is_authority(client_id) == client_id = 0

(***************************************************************************)
(* The visual smoother: main.rs 230-323.  A visual is the record           *)
(* [owner_client_id, character_entity, last_physics_translation,           *)
(* translation]; character_entity is the index of the character it follows *)
(* and translation is the rendered Transform.                              *)
(***************************************************************************)
\* 0.001 m is 1 / SMOOTH_CORRECTION_DISTANCE_THRESHOLD_INV of a metre.
SMOOTH_CORRECTION_DISTANCE_THRESHOLD_INV == 1000
\* The lerp steps 0.25 and 0.75 in quarters.
SMOOTH_CORRECTION_STEP_MIN == 1
SMOOTH_CORRECTION_STEP_MAX == 3
StepQuarters == 4

\* spawn_character (main.rs 186-216) followed by spawn_character_visuals_system
\* (main.rs 230-254): the character's Transform is the default one, the visual
\* starts at the translation of the event.
SpawnVisual(entity, owner, translation) ==
    [owner_client_id |-> owner, character_entity |-> entity,
     last_physics_translation |-> translation, translation |-> translation]

\* compute_physics_interpolation_fraction, in milliseconds of the tick period.
compute_physics_interpolation_fraction(last, time) ==
    Min(Max(time - last, 0), TickMillis)

\* The body of the loop of extrapolate_player_visuals_system for one visual.
\* Velocities of the model are integers, so is_finite() holds.
ExtrapolateVisual(v, chars, last, time) ==
    IF v.character_entity \in 1..Len(chars)
    THEN LET fraction == compute_physics_interpolation_fraction(last, time)
             velocity == chars[v.character_entity].velocity
         IN  [v EXCEPT !.translation =
                  v.last_physics_translation + TruncDiv(velocity * fraction, TickMillis)]
    ELSE v

\* Vec3::lerp(a, b, s) with s = num / den.
lerp(a, b, num, den) == a + TruncDiv((b - a) * num, den)

\* A metre in translation units, and the denominator of the lerp steps.
SmoothUnit == TickHz * VelScale
SmoothStepDen == StepQuarters * SmoothUnit

\* diff > SMOOTH_CORRECTION_DISTANCE_THRESHOLD (main.rs 306).
AboveSmoothThreshold(diff) ==
    diff * SMOOTH_CORRECTION_DISTANCE_THRESHOLD_INV > SmoothUnit

\* dynamic_step (main.rs 307-311), as a number of SmoothStepDen-ths.
dynamic_step(diff) ==
    LET \* (THRESHOLD - diff).max(0.0) / THRESHOLD as over / SmoothUnit
        over == Max(SmoothUnit - diff * SMOOTH_CORRECTION_DISTANCE_THRESHOLD_INV, 0)
    IN  SMOOTH_CORRECTION_STEP_MIN * SmoothUnit
            + (SMOOTH_CORRECTION_STEP_MAX - SMOOTH_CORRECTION_STEP_MIN) * over

\* The body of the loop of post_fixed_player_visuals_system for one visual.
PostFixedVisual(v, chars, lp) ==
    IF v.character_entity \in 1..Len(chars)
    THEN LET c == chars[v.character_entity]
             diff == Abs(v.translation - c.translation)
         IN  IF c.owner_client_id # lp
             THEN [v EXCEPT !.last_physics_translation = c.translation]
             ELSE IF is_authority(lp)
             THEN [v EXCEPT !.last_physics_translation = c.translation]
             ELSE IF AboveSmoothThreshold(diff)
             THEN [v EXCEPT !.last_physics_translation =
                       lerp(v.translation, c.translation, dynamic_step(diff),
                            SmoothStepDen)]
             ELSE [v EXCEPT !.last_physics_translation = c.translation]
    ELSE v

\* A smoother that pulls the simulation to what it renders.
PostFixedVisualsSnapping(vs, chars, lp) ==
    LET moved == [i \in 1..Len(vs) |-> PostFixedVisual(vs[i], chars, lp)]
    IN  [visuals |-> moved,
         characters |->
             [k \in 1..Len(chars) |->
                 IF \E i \in 1..Len(moved) : moved[i].character_entity = k
                 THEN [chars[k] EXCEPT !.translation =
                           moved[CHOOSE i \in 1..Len(moved) :
                                     moved[i].character_entity = k].last_physics_translation]
                 ELSE chars[k]]]

\* post_fixed_player_visuals_system over every visual: the characters are
\* queried read-only (main.rs 286), the visuals mutably (main.rs 287).
PostFixedVisuals(vs, chars, lp) ==
    [visuals |-> [i \in 1..Len(vs) |-> PostFixedVisual(vs[i], chars, lp)],
     characters |-> chars]

\* extrapolate_player_visuals_system over every visual (main.rs 265-281).
ExtrapolateVisuals(vs, chars, last, time) ==
    [visuals |-> [i \in 1..Len(vs) |-> ExtrapolateVisual(vs[i], chars, last, time)],
     characters |-> chars]

\* A frame lasts half a tick period.
FrameMillis == TickMillis \div 2

\* Update: one rendered frame, FrameMillis after the previous one.
extrapolate_player_visuals_system ==
    /\ vis_pc = "frame"
    /\ vis_ticks < MaxSnapshots
    /\ vis_frames < MaxBatchLen
    /\ now' = now + FrameMillis
    /\ LET r == ExtrapolateVisuals(visuals, vis_characters, last_physics_update, now')
       IN  visuals' = r.visuals /\ vis_characters' = r.characters
    /\ vis_frames' = vis_frames + 1
    /\ UNCHANGED <<diffVars, serverVars, clientVars, cli, moveVars, linkVars,
                   last_physics_update, vis_pc, vis_ticks>>

\* FixedUpdate: the simulation moves one character, with the right key held
\* or with no key held, as apply_inputs_system and input_processing_system
\* do; apply_inputs_system stamps LastPhysicsUpdate (input.rs 103).
VisualsFixedUpdate(i, right) ==
    /\ vis_pc = "frame"
    /\ vis_ticks < MaxSnapshots
    /\ i \in 1..Len(vis_characters)
    /\ vis_characters' =
           [vis_characters EXCEPT ![i] =
               process_input(@, PlayerInput(vis_ticks, FALSE, right, 0, 0, now), 1).character]
    /\ last_physics_update' = now
    /\ vis_pc' = "post"
    /\ UNCHANGED <<diffVars, now, serverVars, clientVars, cli, moveVars, linkVars,
                   visuals, vis_ticks, vis_frames>>

\* FixedPostUpdate (main.rs 283-323).
post_fixed_player_visuals_system ==
    /\ vis_pc = "post"
    /\ LET r == PostFixedVisuals(visuals, vis_characters, LocalPlayerId)
       IN  visuals' = r.visuals /\ vis_characters' = r.characters
    /\ last_physics_update' = now
    /\ vis_pc' = "frame"
    /\ vis_ticks' = vis_ticks + 1
    /\ vis_frames' = 0
    /\ UNCHANGED <<diffVars, now, serverVars, clientVars, cli, moveVars, linkVars>>

\* The smoother at rest, for the specifications that do not run it.
InitVisualsIdle ==
    /\ vis_characters = <<>>
    /\ visuals = <<>>
    /\ last_physics_update = 0
    /\ vis_pc = "frame"
    /\ vis_ticks = 0
    /\ vis_frames = 0

(***************************************************************************)
(* The movement model run twice: core.rs 111-186.  A run is the record     *)
(* [character, inputs]: the character and the inputs processed so far, in  *)
(* order, each with its recorded final_translation.                        *)
(***************************************************************************)
MaxMoves == 2

RunStep(run, input, div) ==
    LET r == process_input(run.character, input, div)
    IN  [character |-> r.character, inputs |-> Append(run.inputs, r.input)]

\* The second run is fed inputs with other ids and timestamps and a stale
\* final_translation, as an input that is processed again is.
MovementStep(left, right, yaw, div) ==
    /\ Len(run_a.inputs) < MaxMoves
    /\ LET k == Len(run_a.inputs)
           ia == PlayerInput(k, left, right, 0, yaw, now)
           ib == [PlayerInput(k + MaxMoves, left, right, 0, yaw, 0)
                     EXCEPT !.final_translation = 7]
       IN  /\ run_a' = RunStep(run_a, ia, div)
           /\ run_b' = RunStep(run_b, ib, div)
    /\ UNCHANGED <<diffVars, now, serverVars, clientVars, cli, visualVars, linkVars>>

\* The movement runs at rest, for the specifications that do not run them.
InitMovementIdle ==
    /\ run_a = [character |-> Character(1, 0, 0), inputs |-> <<>>]
    /\ run_b = [character |-> Character(1, 0, 0), inputs |-> <<>>]

\* The snapshot link at rest, for the specifications that do not run it.
InitLinkIdle ==
    /\ link_client = <<>>
    /\ link_history = <<>>
    /\ link_message = None
    /\ link_sent = None
    /\ link_pc = "frame"

(***************************************************************************)
(* Specification SpecServer: connections, acknowledgements and the         *)
(* snapshot history.  Clients connect and disconnect between any two       *)
(* ticks; a client sends at most one message per tick, with one input and  *)
(* any acknowledgement; one tick may come a second late.                   *)
(***************************************************************************)
NextServer ==
    \/ handle_connection_events_system
    \/ receive_inputs_system
    \/ input_processing_system
    \/ snapshot_send_system
    \/ \E c \in Clients : ClientConnects(c)
    \/ \E c \in Clients : ClientDisconnects(c)
    \/ \E c \in Clients : \E ack \in AckChoices(c) :
           server_inbox[c] = <<>> /\ ClientSendsInputs(c, ack, 1)

InitIdle ==
    /\ InitDiffIdle /\ InitClock /\ InitClient
    /\ InitVisualsIdle /\ InitMovementIdle /\ InitLinkIdle

InitServerRun == InitIdle /\ InitServer /\ env_stalls = 1 /\ cli = "ListenServer"

SpecServer == InitServerRun /\ [][NextServer]_vars

(***************************************************************************)
(* Specification SpecStepper: the input queue.  The clients connect before *)
(* the first tick; client 1 sends any number of batches of any length per  *)
(* tick and acknowledges the last snapshot sent to it, client 2 sends      *)
(* at most one batch of one input and never acknowledges; nothing is sent  *)
(* before the last tick, which shows the server on its own.                *)
(***************************************************************************)
BatchLens(c) == IF c = 1 THEN 0..MaxBatchLen ELSE {1}

StepperAcks(c) ==
    IF c = 1 /\ env_heard[c] # {}
    THEN {Some(CHOOSE i \in env_heard[c] : \A j \in env_heard[c] : j <= i)}
    ELSE {None}

NextStepper ==
    \/ handle_connection_events_system
    \/ receive_inputs_system
    \/ input_processing_system
    \/ snapshot_send_system
    \/ \E c \in Clients : snapshot_history.next_id = 0 /\ ClientConnects(c)
    \/ \E c \in Clients : \E len \in BatchLens(c) : \E ack \in StepperAcks(c) :
           /\ c # 1 => server_inbox[c] = <<>>
           /\ snapshot_history.next_id < MaxSnapshots - 1
           /\ ClientSendsInputs(c, ack, len)

InitStepperRun == InitIdle /\ InitServer /\ env_stalls = 0 /\ cli = "ListenServer"

SpecStepper == InitStepperRun /\ [][NextStepper]_vars


(***************************************************************************)
(* The client: input.rs and client.rs.  A client state st is the record    *)
(* [characters, input_history, ignored, corrected].                        *)
(***************************************************************************)

\* ---- capture_inputs_system (input.rs 21-95) -------------------------------

\* input.rs 77-93: only groups whose last input is younger than a second stay.
RetainedGroups(input_groups, time) ==
    SeqFilter(LAMBDA inputs :
                  inputs # <<>> /\ time - inputs[Len(inputs)].timestamp < RetainMillis,
              input_groups)

\* The id counter is left where it is.
CaptureInputSameId(st, i) ==
    LET id == st.input_history.next_id
        input == PlayerInput(id, KeyOf(id)[1], KeyOf(id)[2],
                             st.characters[i].pitch, KeyOf(id)[3], now)
    IN  [st EXCEPT
            !.characters[i].pitch = input.pitch,
            !.characters[i].yaw = input.yaw,
            !.input_history.input_group_for_next_fixed_tick = Append(@, input),
            !.input_history.input_groups = RetainedGroups(@, now)]

\* The body of the loop for the character at index i (input.rs 33-93).
CaptureInput(st, i) ==
    LET id == st.input_history.next_id
        input == PlayerInput(id, KeyOf(id)[1], KeyOf(id)[2],
                             st.characters[i].pitch, KeyOf(id)[3], now)
    IN  [st EXCEPT
            !.characters[i].pitch = input.pitch,
            !.characters[i].yaw = input.yaw,
            !.input_history.input_group_for_next_fixed_tick = Append(@, input),
            !.input_history.next_id = @ + 1,
            !.input_history.input_groups = RetainedGroups(@, now)]

\* The loop over the characters from index i on; it returns at the first
\* character that is not the local player's (input.rs 28-31).
RECURSIVE CaptureLoop(_, _)
CaptureLoop(st, i) ==
    IF i > Len(st.characters) THEN st
    ELSE IF st.characters[i].owner_client_id # local_player THEN st
    ELSE CaptureLoop(CaptureInput(st, i), i + 1)

\* The frames drawn before each fixed tick: none before the first, then one
\* more each time up to MaxBatchLen, then none again.
FramesBefore(tick) == tick % (MaxBatchLen + 1)

ClientState ==
    [characters |-> client_characters, input_history |-> input_history,
     ignored |-> <<>>, corrected |-> <<>>]

\* The tick that spawns the characters, then MaxSnapshots ticks, of which the
\* last is followed up to its receive_snapshot_system.
ClientTickMayStart == client_ticks <= MaxSnapshots

capture_inputs_system ==
    /\ client_pc = "frame"
    /\ client_ticks < MaxSnapshots
    /\ client_frames < FramesBefore(client_ticks)
    /\ client_frames' = client_frames + 1
    /\ LET st == CaptureLoop(ClientState, 1)
       IN  /\ client_characters' = st.characters
           /\ input_history' = st.input_history
    /\ UNCHANGED <<diffVars, frameVars, now, serverVars, client_reliable, client_unreliable,
                   client_sent, client_pc, client_ticks, client_deliveries,
                   client_ignored, client_corrected>>

\* ---- receive_snapshot_system (client.rs 57-163) ---------------------------

\* Vec3::distance_squared in model units.
distance_squared(a, b) == (a - b) * (a - b)

\* 0.0001 m^2 in squared translation units (client.rs 123).
CorrectionThreshold == ((TickHz * VelScale) * (TickHz * VelScale)) \div CorrectionThresholdInv

\* Any difference at all counts as a misprediction.
MispredictedAtAll(dist_diff) == dist_diff > 0

Mispredicted(dist_diff) == dist_diff > CorrectionThreshold

\* A replay that starts at the input the server processed, not after it.
RECURSIVE ReplayGroupInclusive(_, _, _, _)
ReplayGroupInclusive(acc, input_group, div, latest_processed_input_id) ==
    IF input_group = <<>> THEN acc
    ELSE LET input == Head(input_group)
         IN  IF input.id >= latest_processed_input_id
             THEN LET r == process_input(acc.character, input, div)
                  IN  ReplayGroupInclusive([character |-> r.character,
                                            inputs |-> Append(acc.inputs, r.input),
                                            replayed |-> Append(acc.replayed, <<input.id, div>>)],
                                           Tail(input_group), div, latest_processed_input_id)
             ELSE ReplayGroupInclusive([acc EXCEPT !.inputs = Append(@, input)],
                                       Tail(input_group), div, latest_processed_input_id)

\* client.rs 137-145: one group of the replay; acc is [character, inputs, replayed].
RECURSIVE ReplayGroup(_, _, _, _)
ReplayGroup(acc, input_group, div, latest_processed_input_id) ==
    IF input_group = <<>> THEN acc
    ELSE LET input == Head(input_group)
         IN  IF input.id > latest_processed_input_id
             THEN LET r == process_input(acc.character, input, div)
                  IN  ReplayGroup([character |-> r.character,
                                   inputs |-> Append(acc.inputs, r.input),
                                   replayed |-> Append(acc.replayed, <<input.id, div>>)],
                                  Tail(input_group), div, latest_processed_input_id)
             ELSE ReplayGroup([acc EXCEPT !.inputs = Append(@, input)],
                              Tail(input_group), div, latest_processed_input_id)

\* client.rs 132-146: acc is [character, input_groups, replayed].
RECURSIVE ReplayGroups(_, _, _)
ReplayGroups(acc, input_groups, latest_processed_input_id) ==
    IF input_groups = <<>> THEN acc
    ELSE LET r == ReplayGroup([character |-> acc.character, inputs |-> <<>>,
                               replayed |-> acc.replayed],
                              Head(input_groups), Len(Head(input_groups)),
                              latest_processed_input_id)
         IN  ReplayGroups([character |-> r.character,
                           input_groups |-> Append(acc.input_groups, r.inputs),
                           replayed |-> r.replayed],
                          Tail(input_groups), latest_processed_input_id)

\* The pitch and yaw of the last replayed input stay on the character.
CorrectKeepingAngles(st, i, snapshot, character_snapshot) ==
    LET character == st.characters[i]
        latest_processed_input_id == Unwrap(snapshot.latest_processed_input_id)
        overwritten == CharacterSnapshotApply(character_snapshot, character)
        r == ReplayGroups([character |-> overwritten,
                           input_groups |-> <<>>, replayed |-> <<>>],
                          st.input_history.input_groups, latest_processed_input_id)
    IN  [st EXCEPT
            !.characters[i] = r.character,
            !.input_history.input_groups = r.input_groups,
            !.corrected = Append(@, [id |-> snapshot.id,
                                     latest_processed_input_id |-> latest_processed_input_id,
                                     overwritten |-> overwritten,
                                     replayed |-> r.replayed])]

\* client.rs 124-149: overwrite, replay, and put pitch and yaw back.  The log
\* entry keeps the character as it is between the overwrite and the replay.
Correct(st, i, snapshot, character_snapshot) ==
    LET character == st.characters[i]
        latest_processed_input_id == Unwrap(snapshot.latest_processed_input_id)
        overwritten == CharacterSnapshotApply(character_snapshot, character)
        r == ReplayGroups([character |-> overwritten,
                           input_groups |-> <<>>, replayed |-> <<>>],
                          st.input_history.input_groups, latest_processed_input_id)
    IN  [st EXCEPT
            !.characters[i] = [r.character EXCEPT !.pitch = character.pitch,
                                                  !.yaw = character.yaw],
            !.input_history.input_groups = r.input_groups,
            !.corrected = Append(@, [id |-> snapshot.id,
                                     latest_processed_input_id |-> latest_processed_input_id,
                                     overwritten |-> overwritten,
                                     replayed |-> r.replayed])]

\* client.rs 99-157: one character_snapshot of a snapshot that is processed.
ProcessCharacterSnapshot(st, snapshot, character_snapshot) ==
    LET i == FindIndex(LAMBDA c : c.owner_client_id = character_snapshot.client_id,
                       st.characters)
    IN  IF i = 0 THEN st
        ELSE IF character_snapshot.client_id = local_player
        THEN IF IsSome(character_snapshot.translation)
                /\ IsSome(snapshot.latest_processed_input_id)
             THEN LET inputs == Flatten(st.input_history.input_groups)
                      k == FindIndex(LAMBDA input :
                                         input.id = Unwrap(snapshot.latest_processed_input_id),
                                     inputs)
                  IN  IF k # 0
                         /\ Mispredicted(distance_squared(
                                Unwrap(character_snapshot.translation),
                                inputs[k].final_translation))
                      THEN Correct(st, i, snapshot, character_snapshot)
                      ELSE st
             ELSE st
        ELSE [st EXCEPT !.characters[i] =
                            CharacterSnapshotApply(character_snapshot, @)]

RECURSIVE ProcessCharacterSnapshots(_, _, _)
ProcessCharacterSnapshots(st, snapshot, todo) ==
    IF todo = <<>> THEN st
    ELSE ProcessCharacterSnapshots(ProcessCharacterSnapshot(st, snapshot, Head(todo)),
                                   snapshot, Tail(todo))

\* Every snapshot is processed, whatever its id.
should_process_always(latest_processed_snapshot_id, snapshot) == TRUE

\* client.rs 85-91.
should_process(latest_processed_snapshot_id, snapshot) ==
    IF IsSome(latest_processed_snapshot_id)
    THEN snapshot.id > Unwrap(latest_processed_snapshot_id)
    ELSE TRUE

\* client.rs 84-159: one unreliable message.
ProcessSnapshot(st, snapshot) ==
    IF ~should_process(st.input_history.latest_processed_snapshot_id, snapshot)
    THEN [st EXCEPT !.ignored = Append(@, snapshot.id)]
    ELSE ProcessCharacterSnapshots(
             [st EXCEPT !.input_history.latest_processed_snapshot_id = Some(snapshot.id)],
             snapshot, snapshot.character_snapshots)

RECURSIVE ProcessSnapshots(_, _)
ProcessSnapshots(st, messages) ==
    IF messages = <<>> THEN st
    ELSE ProcessSnapshots(ProcessSnapshot(st, Head(messages)), Tail(messages))

\* bincode round trip of a Snapshot: timestamp is #[serde(skip)].
DeserializeSnapshot(snapshot) == [snapshot EXCEPT !.timestamp = 0]

\* client.rs 66-80 and main.rs 186-216: the spawns are deferred commands, and
\* the Transform of the bundle is the default one whatever the message says.
SpawnedCharacters(messages) ==
    [i \in 1..Len(messages) |-> Character(messages[i].client_id, 0, messages[i].velocity)]

receive_snapshot_system ==
    /\ client_pc = "frame"
    /\ ClientTickMayStart
    /\ client_frames = FramesBefore(client_ticks)
    /\ LET st == ProcessSnapshots(ClientState, SeqMap(DeserializeSnapshot, client_unreliable))
       IN  /\ client_characters' = st.characters \o SpawnedCharacters(client_reliable)
           /\ input_history' = st.input_history
           /\ client_ignored' = st.ignored
           /\ client_corrected' = st.corrected
    /\ client_reliable' = <<>>
    /\ client_unreliable' = <<>>
    /\ client_pc' = "update"
    /\ UNCHANGED <<diffVars, frameVars, now, serverVars, client_sent, client_ticks, client_frames,
                   client_deliveries>>

\* ---- apply_inputs_system (input.rs 97-136) --------------------------------

\* input.rs 120-125: acc is [character, inputs, latest_processed_input_id].
RECURSIVE ApplyGroup(_, _, _)
ApplyGroup(acc, todo, div) ==
    IF todo = <<>> THEN acc
    ELSE LET input == Head(todo)
         IN  IF input.id > acc.latest_processed_input_id
             THEN LET r == process_input(acc.character, input, div)
                  IN  ApplyGroup([character |-> r.character,
                                  inputs |-> Append(acc.inputs, r.input),
                                  latest_processed_input_id |-> input.id],
                                 Tail(todo), div)
             ELSE ApplyGroup([acc EXCEPT !.inputs = Append(@, input)], Tail(todo), div)

\* A tick with an empty batch marks the empty batch for transmission.
ApplyInputsClearing(st, i) ==
    LET history == st.input_history
        group == history.input_group_for_next_fixed_tick
    IN  IF group = <<>> THEN [st EXCEPT !.input_history.inputs_for_next_send = <<>>]
        ELSE LET r == ApplyGroup([character |-> st.characters[i], inputs |-> <<>>,
                                  latest_processed_input_id |->
                                      history.latest_processed_input_id],
                                 group, Len(group))
             IN  [st EXCEPT
                     !.characters[i] = r.character,
                     !.input_history.latest_processed_input_id =
                         r.latest_processed_input_id,
                     !.input_history.input_groups = Append(@, r.inputs),
                     !.input_history.inputs_for_next_send = r.inputs,
                     !.input_history.input_group_for_next_fixed_tick = <<>>]

\* input.rs 111-134 for the local character at index i.
ApplyInputs(st, i) ==
    LET history == st.input_history
        group == history.input_group_for_next_fixed_tick
    IN  IF group = <<>> THEN st
        ELSE LET r == ApplyGroup([character |-> st.characters[i], inputs |-> <<>>,
                                  latest_processed_input_id |->
                                      history.latest_processed_input_id],
                                 group, Len(group))
             IN  [st EXCEPT
                     !.characters[i] = r.character,
                     !.input_history.latest_processed_input_id =
                         r.latest_processed_input_id,
                     !.input_history.input_groups = Append(@, r.inputs),
                     !.input_history.inputs_for_next_send = r.inputs,
                     !.input_history.input_group_for_next_fixed_tick = <<>>]

apply_inputs_system ==
    /\ client_pc = "update"
    /\ ClientTickMayStart
    /\ LET i == FindIndex(LAMBDA c : c.owner_client_id = local_player, client_characters)
           st == IF i = 0 THEN ClientState ELSE ApplyInputs(ClientState, i)
       IN  /\ client_characters' = st.characters
           /\ input_history' = st.input_history
    /\ client_pc' = "post"
    /\ client_ignored' = <<>>
    /\ client_corrected' = <<>>
    /\ UNCHANGED <<diffVars, frameVars, now, serverVars, client_reliable, client_unreliable,
                   client_sent, client_ticks, client_frames, client_deliveries>>

\* ---- send_inputs_system (client.rs 46-55) ---------------------------------

\* A message that acknowledges nothing.
PlayerInputMessageUnacknowledging(history) ==
    [latest_processed_snapshot_id |-> None, inputs |-> history.inputs_for_next_send]

\* client.rs 47-50: the message send_inputs_system builds from the history.
PlayerInputMessageOf(history) ==
    [latest_processed_snapshot_id |-> history.latest_processed_snapshot_id,
     inputs |-> history.inputs_for_next_send]

send_inputs_system ==
    /\ client_pc = "post"
    /\ client_sent' = Some(PlayerInputMessageOf(input_history))
    /\ client_pc' = "frame"
    /\ client_ticks' = client_ticks + 1
    /\ client_frames' = 0
    /\ \E elapsed \in TimeSteps :
        /\ elapsed > TickMillis => env_stalls > 0
        /\ env_stalls' = IF elapsed > TickMillis THEN env_stalls - 1 ELSE env_stalls
        /\ now' = now + elapsed
    /\ UNCHANGED <<diffVars, frameVars, server_clients, server_events, server_inbox,
                   input_buffer, characters, snapshot_history, server_pc,
                   server_pre_done, reliable_sent, snapshots_sent, applied_steps,
                   env_next_input, env_seen, env_messages, env_heard,
                   client_characters, input_history, client_reliable,
                   client_unreliable, client_deliveries, client_ignored,
                   client_corrected>>

\* ---- the server and the transport, as the client sees them ----------------

\* The SpawnCharacter messages arrive before the first tick, in any order.
SpawnArrives(client_id) ==
    /\ client_pc = "frame"
    /\ client_ticks = 0
    /\ \A i \in 1..Len(client_reliable) : client_reliable[i].client_id # client_id
    /\ client_reliable' = Append(client_reliable,
                                 SpawnCharacterMsg(local_player, client_id, 0, 0))
    /\ UNCHANGED <<diffVars, frameVars, now, serverVars, client_characters, input_history,
                   client_unreliable, client_sent, client_pc, client_ticks, client_frames,
                   client_deliveries, client_ignored, client_corrected>>

\* Distances of the authoritative translation from the predicted one: just
\* inside and just outside the correction threshold.
Offsets == {5, 6}

\* The inputs the server may have processed last: the last input of one of the
\* two latest groups of the window.
ProcessedChoices ==
    LET input_groups == input_history.input_groups
        n == Len(input_groups)
    IN  IF n = 0 THEN {None}
        ELSE {Some(input_groups[g][Len(input_groups[g])]) : g \in {n, Max(1, n - 1)}}

\* A snapshot of the server: the remote character where tick id puts it, the
\* local character at rest at distance d from where the client recorded it
\* after the input the server processed last.
ServerSnapshot(id, processed, d) ==
    MakeSnapshot(id,
                 IF IsSome(processed) THEN Some(Unwrap(processed).id) ELSE None,
                 <<[client_id |-> local_player,
                    translation |-> Some((IF IsSome(processed)
                                          THEN Unwrap(processed).final_translation
                                          ELSE 0) + d),
                    velocity |-> Some(0)],
                   [client_id |-> CHOOSE c \in Clients : c # local_player,
                    translation |-> Some(id + 1),
                    velocity |-> None]>>,
                 now)

\* Any snapshot id arrives at any time: the channel reorders and duplicates.
SnapshotArrives(id, processed, d) ==
    /\ client_pc = "frame"
    /\ ClientTickMayStart
    /\ client_deliveries < MaxDeliveries
    /\ client_deliveries' = client_deliveries + 1
    /\ client_unreliable' = Append(client_unreliable, ServerSnapshot(id, processed, d))
    /\ UNCHANGED <<diffVars, frameVars, now, serverVars, client_characters, input_history,
                   client_reliable, client_sent, client_pc, client_ticks, client_frames,
                   client_ignored, client_corrected>>

(***************************************************************************)
(* Specification SpecClient: one client; the server is what arrives.       *)
(***************************************************************************)
NextClient ==
    \/ capture_inputs_system
    \/ receive_snapshot_system
    \/ apply_inputs_system
    \/ send_inputs_system
    \/ \E client_id \in Clients : SpawnArrives(client_id)
    \/ \E id \in 0..(MaxSnapshots - 1) : \E processed \in ProcessedChoices :
           \E d \in Offsets : SnapshotArrives(id, processed, d)

InitClientRun == InitIdle /\ InitServer /\ env_stalls = 1 /\ cli = "Client"

SpecClient == InitClientRun /\ [][NextClient]_vars

(***************************************************************************)
(* Properties of the server.                                               *)
(***************************************************************************)
InputProcessingStep == server_pc = "update" /\ server_pc' = "post"
SnapshotSendStep == server_pc = "post" /\ server_pc' = "pre"
ConnectionEventsStep == server_events # <<>> /\ server_events' = <<>>

StepsOf(owner, steps) == SeqFilter(LAMBDA st : st.owner = owner, steps)

Owned == {i \in 1..Len(characters) : characters[i].owner_client_id \in DOMAIN input_buffer}

\* The sum of the slices tick/div of steps, as a reduced fraction <<num, den>> of a tick.
RECURSIVE SliceSum(_)
SliceSum(steps) ==
    IF steps = <<>> THEN <<0, 1>>
    ELSE LET rest == SliceSum(Tail(steps))
             num == rest[1] * Head(steps).div + rest[2]
             den == rest[2] * Head(steps).div
             g == GCD(num, den)
         IN  <<num \div g, den \div g>>

\* A character after the inputs of todo, each <<input, div>>, applied in order.
RECURSIVE AfterInputs(_, _)
AfterInputs(c, todo) ==
    IF todo = <<>> THEN c
    ELSE AfterInputs(process_input(c, Head(todo)[1], Head(todo)[2]).character, Tail(todo))

\* C5: on a tick in which an entity's owner has a cache entry with no queued
\* batches, input_processing_system applies exactly one step with the
\* last-applied input at the full tick slice, the translation advancing by
\* the post-step velocity times the tick, and the id of the last-applied
\* input is unchanged; with no last-applied input the entity is not moved.
C5_ContinuityFallback ==
    [][InputProcessingStep =>
        \A i \in Owned :
            LET c == characters[i]
                o == c.owner_client_id
                last == input_buffer[o].latest_processed_input
                after == characters'[i]
                mine == StepsOf(o, applied_steps')
            IN  input_buffer[o].input_groups = <<>> =>
                    IF IsSome(last)
                    THEN /\ mine = <<Step(o, Unwrap(last).id, 1, FALSE)>>
                         /\ after = process_input(c, Unwrap(last), 1).character
                         /\ after.translation = c.translation + after.velocity
                         /\ IsSome(input_buffer'[o].latest_processed_input)
                         /\ Unwrap(input_buffer'[o].latest_processed_input).id
                                = Unwrap(last).id
                    ELSE /\ mine = <<>>
                         /\ after = c
                         /\ input_buffer'[o].latest_processed_input = None]_vars

\* C5 witness: a tick has re-applied a last input and the entity moved on.
C5_Witness ==
    /\ server_pc = "post"
    /\ \E k \in 1..Len(applied_steps), i \in 1..Len(characters) :
        /\ ~applied_steps[k].queued
        /\ applied_steps[k].div = 1
        /\ characters[i].owner_client_id = applied_steps[k].owner
        /\ characters[i].velocity # 0
        /\ input_buffer[applied_steps[k].owner].input_groups = <<>>

\* The steps a queue of n batches asks for: every entry of every batch, batches
\* in arrival order and entries in list order, a batch of m entries at tick/n/m.
ExpectedSteps(o, input_groups) ==
    Flatten([g \in 1..Len(input_groups) |->
                [k \in 1..Len(input_groups[g]) |->
                    Step(o, input_groups[g][k].id,
                         Len(input_groups) * Len(input_groups[g]), TRUE)]])

ExpectedInputs(input_groups) ==
    Flatten([g \in 1..Len(input_groups) |->
                [k \in 1..Len(input_groups[g]) |->
                    <<input_groups[g][k], Len(input_groups) * Len(input_groups[g])>>]])

\* C6: on a tick in which an entity's owner has n >= 1 queued batches, every
\* entry of a batch of m entries is applied with slice tick/n/m, batches in
\* arrival order and entries in list order.
C6_TimeSlicing ==
    [][InputProcessingStep =>
        \A i \in Owned :
            LET c == characters[i]
                o == c.owner_client_id
                input_groups == input_buffer[o].input_groups
            IN  Len(input_groups) >= 1 =>
                    /\ StepsOf(o, applied_steps') = ExpectedSteps(o, input_groups)
                    /\ characters'[i] = AfterInputs(c, ExpectedInputs(input_groups))]_vars

\* C6 witness: three queued single-entry batches were each applied at a third
\* of the tick.
C6_Witness ==
    /\ server_pc = "post"
    /\ \E o \in Clients :
        LET mine == StepsOf(o, applied_steps)
        IN  /\ Len(mine) = 3
            /\ \A k \in 1..3 : mine[k].div = 3 /\ mine[k].queued
            /\ mine[1].id < mine[2].id /\ mine[2].id < mine[3].id

\* C7: on every tick in which an entity's owner has at least one queued batch,
\* the slices of all the steps applied to that entity sum to exactly one tick.
C7_ExactlyOneTick ==
    [][InputProcessingStep =>
        \A i \in Owned :
            LET o == characters[i].owner_client_id
            IN  Len(input_buffer[o].input_groups) >= 1 =>
                    SliceSum(StepsOf(o, applied_steps')) = <<1, 1>>]_vars

\* The snapshot of the tick being sent, as the client with a cache entry sees it.
FullSnapshotFor(c) ==
    [id |-> snapshot_history.next_id,
     latest_processed_input_id |->
        IF IsSome(input_buffer[c].latest_processed_input)
        THEN Some(Unwrap(input_buffer[c].latest_processed_input).id)
        ELSE None,
     character_snapshots |->
        [i \in 1..Len(characters) |->
            [client_id |-> characters[i].owner_client_id,
             translation |-> Some(characters[i].translation),
             velocity |-> Some(characters[i].velocity)]],
     timestamp |-> now']

\* The history entries that survive the pruning of this run.
RetainedBaselines(c) ==
    LET acked == input_buffer[c].client_latest_processed_snapshot_id
    IN  IF IsSome(acked)
        THEN {old \in {snapshot_history.snapshots[k] :
                          k \in 1..Len(snapshot_history.snapshots)} :
                 /\ old.id = Unwrap(acked)
                 /\ old.timestamp > now' - RetainMillis}
        ELSE {}

\* C8: snapshot_send_system sends every connected client that has a cache
\* entry exactly one message: the full snapshot when the client never
\* acknowledged a snapshot or the acknowledged id is not in the retained
\* history, otherwise the diff against exactly that history entry; no client
\* is dropped.
C8_FullSnapshotFallback ==
    [][SnapshotSendStep =>
        /\ server_clients' = server_clients
        /\ \A c \in server_clients \cap DOMAIN input_buffer :
            LET sent == SeqFilter(LAMBDA s : s.to = c, snapshots_sent')
                baselines == RetainedBaselines(c)
            IN  /\ Len(sent) = 1
                /\ IF baselines = {}
                   THEN sent[1].message = FullSnapshotFor(c)
                   ELSE \A old \in baselines :
                            sent[1].message = SnapshotDiff(FullSnapshotFor(c), old)]_vars

SentIds(history) == {history[k].id : k \in 1..Len(history)}

\* C8 witness: a client whose acknowledged snapshot was pruned from the
\* history has been sent the full snapshot, while a client whose acknowledged
\* snapshot is retained was sent a diff that leaves out an unchanged entity.
C8_Witness ==
    /\ server_pc = "pre"
    /\ \E s \in 1..Len(snapshots_sent) :
        LET c == snapshots_sent[s].to
            acked == input_buffer[c].client_latest_processed_snapshot_id
            message == snapshots_sent[s].message
        IN  /\ c \in DOMAIN input_buffer
            /\ IsSome(acked)
            /\ Unwrap(acked) \notin SentIds(snapshot_history.snapshots)
            /\ Len(message.character_snapshots) = Len(characters)
            /\ \A i \in 1..Len(characters) :
                /\ message.character_snapshots[i].client_id = characters[i].owner_client_id
                /\ message.character_snapshots[i].translation = Some(characters[i].translation)
                /\ message.character_snapshots[i].velocity = Some(characters[i].velocity)
    /\ \E s \in 1..Len(snapshots_sent) :
        LET c == snapshots_sent[s].to
            acked == input_buffer[c].client_latest_processed_snapshot_id
        IN  /\ c \in DOMAIN input_buffer
            /\ IsSome(acked)
            /\ Unwrap(acked) \in SentIds(snapshot_history.snapshots)
            /\ Unwrap(acked) # snapshots_sent[s].message.id
            /\ Len(snapshots_sent[s].message.character_snapshots) < Len(characters)

NewMessages == SubSeq(reliable_sent', Len(reliable_sent) + 1, Len(reliable_sent'))

CountSpawns(messages, to, client_id) ==
    Len(SeqFilter(LAMBDA m : m.to = to /\ m.client_id = client_id, messages))

ConnectEvents == {k \in 1..Len(server_events) : server_events[k].type = "ClientConnected"}

Owners(chars) == {chars[i].owner_client_id : i \in 1..Len(chars)}

\* C9: when handle_connection_events_system handles the connect event of a
\* client, every other client that is already connected (its entity exists
\* and it has not disconnected) is sent exactly one SpawnCharacter message
\* for the new entity.
C9_SpawnBroadcast ==
    [][ConnectionEventsStep =>
        \A k \in ConnectEvents :
            \A d \in (server_clients \cap Owners(characters)) \ {server_events[k].client_id} :
                CountSpawns(NewMessages, d, server_events[k].client_id) = 1]_vars

\* C10: on its connect event the new client is sent exactly one
\* SpawnCharacter message for its own entity, one for every entity on the
\* server, and one for the entity of every client whose connect event is
\* handled earlier in the same run.
C10_SpawnsToNewClient ==
    [][ConnectionEventsStep =>
        \A k \in ConnectEvents :
            LET c == server_events[k].client_id
                earlier == {server_events[j].client_id : j \in {j \in ConnectEvents : j < k}}
            IN  \A e \in {c} \cup Owners(characters) \cup earlier :
                    CountSpawns(NewMessages, c, e) = 1]_vars

(***************************************************************************)
(* Specification SpecDiff: Snapshot::diff and CharacterSnapshot::apply on  *)
(* bounded full snapshots.                                                 *)
(***************************************************************************)
DiffEntities == {0, 1, 2}
DiffValues == {0, 1}

\* A full snapshot: one entry per entity, translation and velocity present.
FullEntries(f) ==
    LET ids == SetToSeq(DOMAIN f)
    IN  [i \in 1..Len(ids) |->
            [client_id |-> ids[i], translation |-> Some(f[ids[i]][1]),
             velocity |-> Some(f[ids[i]][2])]]

FullEntrySeqs ==
    UNION {{FullEntries(f) : f \in [E -> DiffValues \X DiffValues]} :
           E \in SUBSET DiffEntities}

CharactersOf(entries) ==
    [i \in 1..Len(entries) |->
        Character(entries[i].client_id, Unwrap(entries[i].translation),
                  Unwrap(entries[i].velocity))]

InitDiff ==
    /\ dNew \in {MakeSnapshot(1, None, e, 0) : e \in FullEntrySeqs}
    /\ dOld \in {MakeSnapshot(0, None, e, 0) : e \in FullEntrySeqs}
    /\ dDiff = None
    /\ dCharacters = CharactersOf(dOld.character_snapshots)
    /\ InitClock
    /\ InitServer
    /\ InitClient
    /\ InitVisualsIdle
    /\ InitMovementIdle
    /\ InitLinkIdle
    /\ env_stalls = 0
    /\ cli = "ListenServer"

\* Snapshot::diff(dNew, dOld), its entries applied to a state equal to dOld.
DiffAndApply ==
    /\ dDiff = None
    /\ dDiff' = Some(SnapshotDiff(dNew, dOld))
    /\ dCharacters' =
           ApplyEntries(dCharacters, SnapshotDiff(dNew, dOld).character_snapshots)
    /\ UNCHANGED <<dNew, dOld, now, serverVars, clientVars, frameVars>>

NextDiff == DiffAndApply

SpecDiff == InitDiff /\ [][NextDiff]_vars

(***************************************************************************)
(* Properties of Snapshot::diff.                                           *)
(***************************************************************************)
EntryFor(entries, client_id) ==
    SeqFilter(LAMBDA e : e.client_id = client_id, entries)

\* C2: for full snapshots S = dNew and B = dOld, once the entries of
\* diff(S, B) have been applied onto a state equal to B, every entity present
\* in both S and B has exactly the translation and velocity S holds for it.
C2_DiffRoundTrip ==
    IsSome(dDiff) =>
        \A i \in 1..Len(dNew.character_snapshots) :
            LET new == dNew.character_snapshots[i]
                mine == SeqFilter(LAMBDA c : c.owner_client_id = new.client_id,
                                  dCharacters)
            IN  EntryFor(dOld.character_snapshots, new.client_id) # <<>> =>
                    /\ Len(mine) = 1
                    /\ mine[1].translation = Unwrap(new.translation)
                    /\ mine[1].velocity = Unwrap(new.velocity)

\* C2 witness: a diff was applied in which an entity of both snapshots changed
\* its velocity but not its translation and another changed both.
C2_Witness ==
    /\ IsSome(dDiff)
    /\ \E i, j \in 1..Len(dNew.character_snapshots) :
        LET a == dNew.character_snapshots[i]
            b == dNew.character_snapshots[j]
            oa == EntryFor(dOld.character_snapshots, a.client_id)
            ob == EntryFor(dOld.character_snapshots, b.client_id)
        IN  /\ oa # <<>> /\ ob # <<>>
            /\ oa[1].translation = a.translation /\ oa[1].velocity # a.velocity
            /\ ob[1].translation # b.translation /\ ob[1].velocity # b.velocity
            /\ EntryFor(Unwrap(dDiff).character_snapshots, a.client_id)
                   = <<[client_id |-> a.client_id, translation |-> None,
                        velocity |-> a.velocity]>>
            /\ EntryFor(Unwrap(dDiff).character_snapshots, b.client_id) = <<b>>

\* C3: diff(S, S) has no entries; a diff of full snapshots never holds an
\* entry with translation and velocity both absent; an entity whose
\* translation and velocity in S equal those in B has no entry; an entity
\* absent from B is included with both fields present.
C3_DiffMinimality ==
    IsSome(dDiff) =>
        LET entries == Unwrap(dDiff).character_snapshots
        IN  /\ dNew.character_snapshots = dOld.character_snapshots => entries = <<>>
            /\ \A k \in 1..Len(entries) :
                   IsSome(entries[k].translation) \/ IsSome(entries[k].velocity)
            /\ \A i \in 1..Len(dNew.character_snapshots) :
                LET new == dNew.character_snapshots[i]
                    old == EntryFor(dOld.character_snapshots, new.client_id)
                    sent == EntryFor(entries, new.client_id)
                IN  /\ old = <<new>> => sent = <<>>
                    /\ old = <<>> =>
                           /\ sent = <<new>>
                           /\ IsSome(new.translation) /\ IsSome(new.velocity)

\* C3 witness: a diff was taken of a snapshot that has an unchanged entity,
\* which it leaves out, and an entity new to the baseline, which it holds in
\* full.
C3_Witness ==
    /\ IsSome(dDiff)
    /\ \E i, j \in 1..Len(dNew.character_snapshots) :
        LET a == dNew.character_snapshots[i]
            b == dNew.character_snapshots[j]
        IN  /\ EntryFor(dOld.character_snapshots, a.client_id) = <<a>>
            /\ EntryFor(Unwrap(dDiff).character_snapshots, a.client_id) = <<>>
            /\ EntryFor(dOld.character_snapshots, b.client_id) = <<>>
            /\ EntryFor(Unwrap(dDiff).character_snapshots, b.client_id) = <<b>>

(***************************************************************************)
(* Properties of the client.                                               *)
(***************************************************************************)
ReceiveSnapshotStep == client_pc = "frame" /\ client_pc' = "update"

\* The client state after receive_snapshot_system has taken the first n
\* unreliable messages.
AfterMessages(n) ==
    ProcessSnapshots(ClientState,
                     SeqMap(DeserializeSnapshot, SubSeq(client_unreliable, 1, n)))

IsStale(st, snapshot) ==
    /\ IsSome(st.input_history.latest_processed_snapshot_id)
    /\ snapshot.id <= Unwrap(st.input_history.latest_processed_snapshot_id)

\* C1: in receive_snapshot_system a snapshot message whose id is not above
\* the last processed snapshot id leaves latest_processed_snapshot_id, every
\* character and the InputHistory as they are, wherever the message stands
\* among the messages received; a run that receives only such messages
\* changes neither the characters nor the InputHistory.
C1_StalenessRejection ==
    [][ReceiveSnapshotStep =>
        /\ \A n \in 1..Len(client_unreliable) :
            LET st == AfterMessages(n - 1)
                after == AfterMessages(n)
            IN  IsStale(st, client_unreliable[n]) =>
                    /\ after.characters = st.characters
                    /\ after.input_history = st.input_history
        /\ (\A n \in 1..Len(client_unreliable) :
                IsStale(ClientState, client_unreliable[n])) =>
                    /\ SubSeq(client_characters', 1, Len(client_characters))
                           = client_characters
                    /\ input_history' = input_history]_vars

\* C1 witness: a run has skipped a snapshot older than the last processed
\* one, which has a position for the remote character that the client does
\* not show.
C1_Witness ==
    /\ client_pc = "update"
    /\ IsSome(input_history.latest_processed_snapshot_id)
    /\ \E a \in 1..Len(client_ignored) :
        client_ignored[a] < Unwrap(input_history.latest_processed_snapshot_id)
    /\ \E i \in 1..Len(client_characters) :
        /\ client_characters[i].owner_client_id # local_player
        /\ \A a \in 1..Len(client_ignored) :
               client_characters[i].translation # client_ignored[a] + 1
    /\ input_history.input_groups # <<>>

LocalCharacters(st) ==
    SeqFilter(LAMBDA c : c.owner_client_id = local_player, st.characters)

\* The inputs of the window after the one with id k, each with the slice
\* divisor of its group.
InputsAfter(input_groups, k) ==
    SeqFilter(LAMBDA r : r[1].id > k,
              Flatten([g \in 1..Len(input_groups) |->
                          [j \in 1..Len(input_groups[g]) |->
                              <<input_groups[g][j], Len(input_groups[g])>>]]))

FinalTranslations(st) ==
    SeqMap(LAMBDA input : input.final_translation,
           Flatten(st.input_history.input_groups))

\* C4: when receive_snapshot_system processes a fresh snapshot whose entry for
\* the local character carries a translation T and whose processed-input id k
\* is found in the input window with recorded final translation P, the
\* character is overwritten and the later inputs replayed if and only if the
\* squared distance of T and P is above 1e-4 m^2; otherwise the character's
\* translation and velocity and all the recorded final translations stay.
C4_CorrectionThreshold ==
    [][ReceiveSnapshotStep =>
        /\ client_corrected' = AfterMessages(Len(client_unreliable)).corrected
        /\ \A n \in 1..Len(client_unreliable) :
            LET st == AfterMessages(n - 1)
                after == AfterMessages(n)
                snapshot == client_unreliable[n]
                entries == EntryFor(snapshot.character_snapshots, local_player)
                inputs == Flatten(st.input_history.input_groups)
            IN  \A e \in 1..Len(entries), j \in 1..Len(inputs) :
                    (/\ ~IsStale(st, snapshot)
                     /\ IsSome(entries[e].translation)
                     /\ snapshot.latest_processed_input_id = Some(inputs[j].id)) =>
                        LET T == Unwrap(entries[e].translation)
                            P == inputs[j].final_translation
                            far == (T - P) * (T - P) * CorrectionThresholdInv
                                       > (TickHz * VelScale) * (TickHz * VelScale)
                            before == LocalCharacters(st)
                            local == LocalCharacters(after)
                        IN  /\ Len(before) = 1 /\ Len(local) = 1
                            /\ far <=> Len(after.corrected) = Len(st.corrected) + 1
                            /\ far =>
                                local[1] =
                                    [AfterInputs(
                                         CharacterSnapshotApply(entries[e], before[1]),
                                         InputsAfter(st.input_history.input_groups,
                                                     inputs[j].id))
                                     EXCEPT !.pitch = before[1].pitch,
                                            !.yaw = before[1].yaw]
                            /\ ~far =>
                                /\ local[1].translation = before[1].translation
                                /\ local[1].velocity = before[1].velocity
                                /\ FinalTranslations(after) = FinalTranslations(st)]_vars

\* C4 witness: one run has left the local character alone on a snapshot just
\* inside the threshold and corrected it on a later one just outside, with
\* inputs to replay.
C4_Witness ==
    /\ client_pc = "update"
    /\ Len(client_corrected) = 1
    /\ client_corrected[1].replayed # <<>>
    /\ IsSome(input_history.latest_processed_snapshot_id)
    /\ client_corrected[1].id = Unwrap(input_history.latest_processed_snapshot_id)
    /\ client_ignored = <<>>
    /\ client_deliveries >= 2
    /\ client_sent # None
    /\ Unwrap(client_sent).latest_processed_snapshot_id = None

(***************************************************************************)
(* Properties of the server: acknowledgements, snapshot ids, history.      *)
(***************************************************************************)
\* C11: the acknowledged snapshot id stored for a client never decreases: no
\* step of the server lowers or clears the client_latest_processed_snapshot_id
\* of a cache entry that stays in the cache.
C11_AckNeverDecreases ==
    [][\A c \in DOMAIN input_buffer \cap DOMAIN input_buffer' :
          LET old == input_buffer[c].client_latest_processed_snapshot_id
              new == input_buffer'[c].client_latest_processed_snapshot_id
          IN  IsSome(old) => IsSome(new) /\ Unwrap(new) >= Unwrap(old)]_vars

HistoryIds(history) == [k \in 1..Len(history.snapshots) |-> history.snapshots[k].id]

StrictlyIncreasing(ids) == \A i, j \in 1..Len(ids) : i < j => ids[i] < ids[j]

\* C12: a run of snapshot_send_system builds one snapshot whose id is the
\* counter next_id, one above the id of the run before; every message of the
\* run carries that id; the counter moves on by one; and the ids of the
\* history entries are strictly increasing in insertion order.
C12_SnapshotIds ==
    [][/\ StrictlyIncreasing(HistoryIds(snapshot_history'))
       /\ \A k \in 1..Len(snapshot_history'.snapshots) :
              snapshot_history'.snapshots[k].id < snapshot_history'.next_id
       /\ SnapshotSendStep =>
              /\ \A s \in 1..Len(snapshots_sent') :
                     snapshots_sent'[s].message.id = snapshot_history.next_id
              /\ snapshot_history'.next_id = snapshot_history.next_id + 1
              /\ snapshot_history'.snapshots[Len(snapshot_history'.snapshots)].id
                     = snapshot_history.next_id
              /\ snapshot_history.snapshots # <<>> =>
                     snapshot_history.snapshots[Len(snapshot_history.snapshots)].id + 1
                         = snapshot_history.next_id]_vars

\* C12 witness: the third snapshot went to two clients under one id and the
\* history holds more than one entry.
C12_Witness ==
    /\ server_pc = "pre"
    /\ Len(snapshots_sent) = 2
    /\ snapshots_sent[1].to # snapshots_sent[2].to
    /\ snapshots_sent[1].message.id = 2
    /\ snapshots_sent[2].message.id = 2
    /\ snapshot_history.next_id = 3
    /\ Len(snapshot_history.snapshots) >= 2

\* The full snapshot of the server's characters, processed-input id cleared.
AuthoritativeSnapshot(id, timestamp) ==
    [id |-> id,
     latest_processed_input_id |-> None,
     character_snapshots |->
        [i \in 1..Len(characters) |->
            [client_id |-> characters[i].owner_client_id,
             translation |-> Some(characters[i].translation),
             velocity |-> Some(characters[i].velocity)]],
     timestamp |-> timestamp]

\* C14: the entry snapshot_send_system appends to the history is the full
\* snapshot of the server's state at that tick with the processed-input id
\* cleared, whatever was sent to the clients; the entries kept from before
\* are not rewritten; so every entry holds translation and velocity for each
\* of its entities.
C14_HistoryIsAuthoritative ==
    [][/\ \A k \in 1..Len(snapshot_history'.snapshots) :
            LET entry == snapshot_history'.snapshots[k]
            IN  /\ entry.latest_processed_input_id = None
                /\ \A i \in 1..Len(entry.character_snapshots) :
                       /\ IsSome(entry.character_snapshots[i].translation)
                       /\ IsSome(entry.character_snapshots[i].velocity)
       /\ SnapshotSendStep =>
            LET n == Len(snapshot_history'.snapshots)
            IN  /\ n >= 1
                /\ snapshot_history'.snapshots[n]
                       = AuthoritativeSnapshot(snapshot_history.next_id, now')
                /\ \A k \in 1..(n - 1) :
                       \E j \in 1..Len(snapshot_history.snapshots) :
                           snapshot_history'.snapshots[k] = snapshot_history.snapshots[j]]_vars

\* C14 witness: a client was sent a diff that leaves an entity out and names
\* its processed input, and the entry stored for that tick is full and names
\* none.
C14_Witness ==
    /\ server_pc = "pre"
    /\ snapshot_history.snapshots # <<>>
    /\ \E s \in 1..Len(snapshots_sent) :
        LET message == snapshots_sent[s].message
            entry == snapshot_history.snapshots[Len(snapshot_history.snapshots)]
        IN  /\ entry.id = message.id
            /\ IsSome(message.latest_processed_input_id)
            /\ Len(message.character_snapshots) < Len(entry.character_snapshots)
            /\ entry.latest_processed_input_id = None
            /\ Len(entry.character_snapshots) = Len(characters)

\* The clients whose connect event has been handled and that are connected.
Joined == server_clients \cap Owners(characters)

\* C15: every run of snapshot_send_system sends every connected client
\* exactly one snapshot message, whether or not a message of that client has
\* been received.
C15_SnapshotToEveryClient ==
    [][SnapshotSendStep =>
        \A c \in Joined :
            Len(SeqFilter(LAMBDA s : s.to = c, snapshots_sent')) = 1]_vars

(***************************************************************************)
(* Properties of the client's input ids and of the disconnect.             *)
(***************************************************************************)
CaptureStep == client_frames' = client_frames + 1

\* The ids of the retained input groups followed by the in-progress batch.
IssuedIds(history) ==
    SeqMap(LAMBDA input : input.id,
           Flatten(history.input_groups) \o history.input_group_for_next_fixed_tick)

\* C13: the id counter never goes back; an input appended by
\* capture_inputs_system gets the counter's value, above every id issued
\* before, and the counter moves past it; and the ids of the retained input
\* groups followed by the in-progress batch are strictly increasing and below
\* the counter.
C13_InputIds ==
    [][/\ input_history'.next_id >= input_history.next_id
       /\ StrictlyIncreasing(IssuedIds(input_history'))
       /\ \A k \in 1..Len(IssuedIds(input_history')) :
              IssuedIds(input_history')[k] < input_history'.next_id
       /\ (CaptureStep /\ input_history' # input_history) =>
              LET batch == input_history'.input_group_for_next_fixed_tick
              IN  /\ batch # <<>>
                  /\ SubSeq(batch, 1, Len(batch) - 1)
                         = input_history.input_group_for_next_fixed_tick
                  /\ batch[Len(batch)].id = input_history.next_id
                  /\ input_history'.next_id = input_history.next_id + 1]_vars

\* C13 witness: two inputs were captured for the coming tick after an earlier
\* batch went into the window.
C13_Witness ==
    /\ client_pc = "frame"
    /\ input_history.input_groups # <<>>
    /\ Len(input_history.input_group_for_next_fixed_tick) = 2
    /\ input_history.next_id = 3

Disconnected(events) ==
    {events[k].client_id : k \in {j \in 1..Len(events) : events[j].type = "ClientDisconnected"}}

DisconnectEvent(c) == [type |-> "ClientDisconnected", client_id |-> c]

\* C19: a run of handle_connection_events_system takes out of the cache the
\* entries of the clients whose ClientDisconnected event it handles and no
\* other, leaves the other entries, the snapshot history and the entities as
\* they are; and on the cache of any run, handling the ClientDisconnected
\* event of any client twice gives what handling it once gives, and handling
\* it for a client that has no entry changes nothing.
C19_DisconnectTeardown ==
    [][ConnectionEventsStep =>
        /\ DOMAIN input_buffer' = DOMAIN input_buffer \ Disconnected(server_events)
        /\ \A c \in DOMAIN input_buffer' : input_buffer'[c] = input_buffer[c]
        /\ snapshot_history' = snapshot_history
        /\ SubSeq(characters', 1, Len(characters)) = characters
        /\ \A c \in Clients :
            LET acc == [spawned |-> <<>>, sent |-> <<>>, inputs |-> input_buffer]
                once == HandleEvent(DisconnectEvent(c), characters, acc)
            IN  /\ HandleEvent(DisconnectEvent(c), characters, once) = once
                /\ c \notin DOMAIN input_buffer => once = acc
                /\ once.spawned = <<>> /\ once.sent = <<>>
                /\ DOMAIN once.inputs = DOMAIN input_buffer \ {c}
                /\ \A d \in DOMAIN once.inputs : once.inputs[d] = input_buffer[d]]_vars

\* C19 witness: a client that had an entry (it had been sent snapshots) has
\* disconnected and its entry is gone, while the other client's entry is
\* still there with its queued batch.
C19_Witness ==
    /\ server_events = <<>>
    /\ \E c \in Clients :
        /\ c \in env_seen
        /\ c \notin server_clients
        /\ env_heard[c] # {}
        /\ c \notin DOMAIN input_buffer
        /\ \E d \in Clients \ {c} :
            /\ d \in DOMAIN input_buffer
            /\ d \in server_clients
            /\ input_buffer[d].input_groups # <<>>

ApplyInputsStep == client_pc = "update" /\ client_pc' = "post"

\* C20: on a fixed tick with a non-empty in-progress batch of m inputs,
\* apply_inputs_system applies every input of the batch once, in order, each
\* with slice tick/m, sets latest_processed_input_id to the id of the last
\* one, appends the batch to the window, makes it the batch to transmit and
\* empties the in-progress batch.
C20_PredictionTick ==
    [][(ApplyInputsStep /\ input_history.input_group_for_next_fixed_tick # <<>>) =>
        LET batch == input_history.input_group_for_next_fixed_tick
            before == LocalCharacters(ClientState)
            local == LocalCharacters([characters |-> client_characters'])
            todo == [k \in 1..Len(batch) |-> <<batch[k], Len(batch)>>]
        IN  /\ Len(before) = 1 /\ Len(local) = 1
            /\ local[1] = AfterInputs(before[1], todo)
            /\ input_history'.latest_processed_input_id = batch[Len(batch)].id
            /\ Len(input_history'.input_groups) = Len(input_history.input_groups) + 1
            /\ SeqMap(LAMBDA input : input.id,
                      input_history'.input_groups[Len(input_history'.input_groups)])
                   = SeqMap(LAMBDA input : input.id, batch)
            /\ input_history'.inputs_for_next_send
                   = input_history'.input_groups[Len(input_history'.input_groups)]
            /\ input_history'.input_group_for_next_fixed_tick = <<>>]_vars

(***************************************************************************)
(* Specification SpecVisuals: the visual smoother in every role.  Two      *)
(* characters, one of the authority and one of client 1, each with its     *)
(* visual; every fixed tick moves one of them and up to MaxBatchLen frames *)
(* are rendered between two ticks.                                         *)
(***************************************************************************)
SpawnTranslations == {0, 4}

InitVisualsRun ==
    /\ InitDiffIdle /\ InitClock /\ InitClient /\ InitServer /\ InitMovementIdle
    /\ InitLinkIdle
    /\ env_stalls = 0
    /\ cli \in AuthorityVariants \cup ClientVariants
    /\ vis_characters = <<Character(AuthorityId, 0, 0), Character(local_player, 0, 0)>>
    /\ \E s \in SpawnTranslations :
           /\ cli \in AuthorityVariants => s = 0
           /\ visuals = <<SpawnVisual(1, AuthorityId, s), SpawnVisual(2, local_player, s)>>
    /\ last_physics_update = now
    /\ vis_pc = "frame"
    /\ vis_ticks = 0
    /\ vis_frames = 0

NextVisuals ==
    \/ extrapolate_player_visuals_system
    \/ \E i \in 1..2 : \E right \in BOOLEAN : VisualsFixedUpdate(i, right)
    \/ post_fixed_player_visuals_system

SpecVisuals == InitVisualsRun /\ [][NextVisuals]_vars

ExtrapolateStep == vis_frames' = vis_frames + 1
PostFixedStep == vis_pc = "post" /\ vis_pc' = "frame"

\* What a visual is attached to.
Attachment(vs) ==
    [i \in 1..Len(vs) |-> <<vs[i].owner_client_id, vs[i].character_entity>>]

\* C17: a step of extrapolate_player_visuals_system or of
\* post_fixed_player_visuals_system leaves every character's velocity, pitch,
\* yaw, owner and simulation translation as they were, whether the process is
\* the authority or a client and whether the character is its own or a remote
\* one; the first changes only the rendered translations of the visuals, the
\* second only their last_physics_translation and the LastPhysicsUpdate time.
C17_SmootherLeavesSimulation ==
    [][/\ (ExtrapolateStep \/ PostFixedStep) =>
              /\ vis_characters' = vis_characters
              /\ Attachment(visuals') = Attachment(visuals)
       /\ ExtrapolateStep =>
              /\ last_physics_update' = last_physics_update
              /\ \A i \in 1..Len(visuals) :
                     visuals'[i].last_physics_translation
                         = visuals[i].last_physics_translation
       /\ PostFixedStep =>
              \A i \in 1..Len(visuals) : visuals'[i].translation = visuals[i].translation
      ]_vars

\* C17 witness: on a client, after a fixed tick and a rendered frame, the
\* local character is moving, its visual is rendered away from its
\* last_physics_translation, and that translation was smoothed: it is not the
\* simulation translation.
C17_Witness ==
    /\ cli = "Client"
    /\ vis_ticks >= 1
    /\ vis_frames >= 1
    /\ \E i \in 1..Len(visuals) :
           LET c == vis_characters[visuals[i].character_entity]
           IN  /\ c.owner_client_id = local_player
               /\ c.velocity # 0
               /\ visuals[i].translation # visuals[i].last_physics_translation
               /\ visuals[i].last_physics_translation # c.translation

(***************************************************************************)
(* Specification SpecMovement: two runs of the movement model.  The runs   *)
(* start from the same velocity and translation and are fed the same       *)
(* flags, yaw and time slice at every step; they differ in everything      *)
(* else: the owner, the angles the character had before, the ids and       *)
(* timestamps of the inputs and the final_translation the inputs carry in. *)
(***************************************************************************)
StartVelocities == {0, CHARACTER_SPEED * VelScale, -(2 * VelScale)}
StartTranslations == {0, 3}
Yaws == {0, 1}

InitMovementRun ==
    /\ InitDiffIdle /\ InitClock /\ InitClient /\ InitServer /\ InitVisualsIdle
    /\ InitLinkIdle
    /\ env_stalls = 0
    /\ cli \in AuthorityVariants \cup ClientVariants
    /\ \E t \in StartTranslations : \E v \in StartVelocities : \E yaw \in Yaws :
           /\ run_a = [character |-> Character(1, t, v), inputs |-> <<>>]
           /\ run_b = [character |-> [Character(2, t, v) EXCEPT !.yaw = yaw, !.pitch = 1],
                       inputs |-> <<>>]

NextMovement ==
    \E left \in BOOLEAN : \E right \in BOOLEAN : \E yaw \in Yaws :
        \E div \in 1..MaxBatchLen : MovementStep(left, right, yaw, div)

SpecMovement == InitMovementRun /\ [][NextMovement]_vars

FinalTranslationsOf(run) ==
    [i \in 1..Len(run.inputs) |-> run.inputs[i].final_translation]

\* C16: two runs of Character::process_input that start from the same
\* velocity and translation and are given the same key flags, yaw, pitch and
\* time slice at every step have the same translation and velocity after
\* every step and record the same final translation on every input, whatever
\* the owner and the earlier angles of the character and whatever the id, the
\* timestamp and the earlier final_translation of the inputs.
C16_MovementDeterminism ==
    /\ run_a.character.translation = run_b.character.translation
    /\ run_a.character.velocity = run_b.character.velocity
    /\ FinalTranslationsOf(run_a) = FinalTranslationsOf(run_b)

\* C16 witness: both runs have processed MaxMoves inputs with a key held,
\* the second one in a shorter slice, the second run started with another
\* yaw than the first and took other input ids, and the characters moved.
C16_Witness ==
    /\ Len(run_a.inputs) = MaxMoves
    /\ Len(run_b.inputs) = MaxMoves
    /\ run_a.inputs[1].id # run_b.inputs[1].id
    /\ run_a.inputs[1].yaw = 0
    /\ run_a.inputs[2].yaw = 1
    /\ run_a.inputs[1].right
    /\ run_a.character.velocity # 0
    /\ run_a.inputs[1].final_translation # run_a.inputs[2].final_translation

(***************************************************************************)
(* Specification SpecApp: one process, started as a listen server or as a  *)
(* client (main.rs 82-127); it runs the fixed-tick systems of its plugins  *)
(* in the order of the schedules FixedPreUpdate, FixedUpdate and           *)
(* FixedPostUpdate.                                                        *)
(***************************************************************************)
InitAppRun ==
    /\ InitIdle
    /\ InitServer
    /\ env_stalls = 1
    /\ cli \in ServerVariants \cup ClientVariants

NextApp ==
    \/ cli \in ServerVariants /\ NextServer
    \/ cli \in ClientVariants /\ NextClient

SpecApp == InitAppRun /\ [][NextApp]_vars

\* Nothing inbound is left for the server: no connection event and no
\* message of a connected client.
ServerDrained ==
    /\ server_events = <<>>
    /\ \A c \in server_clients : server_inbox[c] = <<>>

\* Nothing inbound is left for the client on either channel.
ClientDrained == client_reliable = <<>> /\ client_unreliable = <<>>

\* A character that exists before and after the step is moved by it.
Simulates(before, after) ==
    \E i \in 1..Min(Len(before), Len(after)) :
        \/ before[i].translation # after[i].translation
        \/ before[i].velocity # after[i].velocity

SendInputsStep == client_pc = "post" /\ client_pc' = "frame"

ScheduleOrder == {<<"pre", "update">>, <<"update", "post">>, <<"post", "pre">>,
                  <<"frame", "update">>, <<"post", "frame">>}

\* C18: on the server and on the client the schedules of a fixed tick follow
\* each other as receive, simulate, send.  When input_processing_system or
\* apply_inputs_system starts, every inbound message and connection event
\* has been taken; the server moves a character with inputs only in
\* FixedUpdate; a snapshot is numbered and sent only in FixedPostUpdate and
\* the InputBatch only in FixedPostUpdate, that is after the simulation of
\* the same tick, and the next simulation step belongs to the next tick.
C18_TickOrder ==
    [][/\ InputProcessingStep => ServerDrained
       /\ ApplyInputsStep => ClientDrained
       /\ (applied_steps' # applied_steps \/ Simulates(characters, characters'))
              => InputProcessingStep
       /\ (snapshots_sent' # snapshots_sent \/ snapshot_history' # snapshot_history)
              => SnapshotSendStep
       /\ (client_sent' # client_sent \/ client_ticks' # client_ticks) => SendInputsStep
       /\ server_pc' # server_pc => <<server_pc, server_pc'>> \in ScheduleOrder
       /\ client_pc' # client_pc => <<client_pc, client_pc'>> \in ScheduleOrder
      ]_vars

\* C18 witness: a server tick is over in which a message was received, its
\* input was applied to a character and a snapshot was sent afterwards to
\* the client, with nothing inbound left behind.
C18_Witness ==
    /\ cli \in ServerVariants
    /\ server_pc = "pre"
    /\ server_pre_done = {}
    /\ applied_steps # <<>>
    /\ snapshots_sent # <<>>
    /\ snapshot_history.next_id >= 1
    /\ ServerDrained

\* The local player's character exists on the client.
LocalExists ==
    \E i \in 1..Len(client_characters) : client_characters[i].owner_client_id = local_player

\* C21: a run of capture_inputs_system in a frame in which the local player's
\* character exists appends exactly one input to the in-progress batch and
\* adds one to next_id, however many remote characters exist and wherever
\* the local character stands in the iteration order.
C21_CaptureEveryFrame ==
    [][(CaptureStep /\ LocalExists) =>
           /\ Len(input_history'.input_group_for_next_fixed_tick)
                  = Len(input_history.input_group_for_next_fixed_tick) + 1
           /\ input_history'.next_id = input_history.next_id + 1
      ]_vars

\* C22: a run of apply_inputs_system on a fixed tick whose in-progress batch
\* is empty leaves every character's translation and velocity, the retained
\* input window, latest_processed_input_id and the batch marked for
\* transmission as they were.
C22_EmptyBatchTick ==
    [][(ApplyInputsStep /\ input_history.input_group_for_next_fixed_tick = <<>>) =>
           /\ client_characters' = client_characters
           /\ input_history'.input_groups = input_history.input_groups
           /\ input_history'.latest_processed_input_id
                  = input_history.latest_processed_input_id
           /\ input_history'.inputs_for_next_send = input_history.inputs_for_next_send
      ]_vars

\* C22 witness: apply_inputs_system has run on a tick before which no frame
\* was drawn, for a local character that is moving and whose earlier batch
\* is still marked for transmission.
C22_Witness ==
    /\ client_pc = "post"
    /\ client_ticks > 0
    /\ client_frames = 0
    /\ FramesBefore(client_ticks) = 0
    /\ input_history.inputs_for_next_send # <<>>
    /\ input_history.input_groups # <<>>
    /\ input_history.latest_processed_input_id > 0
    /\ \E i \in 1..Len(client_characters) :
           /\ client_characters[i].owner_client_id = local_player
           /\ client_characters[i].velocity # 0

(***************************************************************************)
(* Specification SpecLink: one client and the snapshots the server builds  *)
(* for it.  The client has simulated two ticks and captured one more       *)
(* input.  The server builds a snapshot per tick, with the client's        *)
(* character where it was or away from where the client recorded it, and   *)
(* the remote character moving back and forth, and sends it in             *)
(* full or as a diff against any snapshot the client has processed, as the *)
(* acknowledgement it last stored tells it to.  The client receives one    *)
(* snapshot in every fixed tick and captures one input between two ticks,  *)
(* and its clock may jump a second once.                                   *)
(***************************************************************************)
MaxLinkDeliveries == 3

RemoteClient == CHOOSE c \in Clients : c # local_player

\* What the remote character does on the server: velocity 3, translation 1
\* on even snapshots and 2 on odd ones.
RemoteVelocity == 3
RemoteTranslation(n) == 1 + (n % 2)

\* The client after two fixed ticks with one and two captured inputs and
\* one more frame: input.rs 21-136.
LinkStart ==
    LET st0 == [characters |-> <<Character(local_player, 0, 0),
                                 Character(RemoteClient, 0, RemoteVelocity)>>,
                input_history |-> NewInputHistory,
                ignored |-> <<>>, corrected |-> <<>>]
        st1 == ApplyInputs(CaptureInput(st0, 1), 1)
        st2 == ApplyInputs(CaptureInput(CaptureInput(st1, 1), 1), 1)
    IN  CaptureInput(st2, 1)

\* The final translation the client recorded for the input the server
\* processed last, 0 when there is none.
RecordedFor(st, processed) ==
    LET inputs == Flatten(st.input_history.input_groups)
        k == IF IsSome(processed)
             THEN FindIndex(LAMBDA input : input.id = Unwrap(processed).id, inputs)
             ELSE 0
    IN  IF k = 0 THEN 0 ELSE inputs[k].final_translation

\* The id of the snapshot the server builds next.
LinkNextId == Cardinality(DOMAIN link_history)

\* Where the server has the client's character: where it had it in the
\* snapshot before, or, when it moved, LinkOffset away from where the client
\* recorded it after the input the server processed last.
LinkOffset == 6
LinkTranslation(processed, moved) ==
    IF moved \/ LinkNextId = 0
    THEN RecordedFor(link_client, processed) + (IF moved THEN LinkOffset ELSE 0)
    ELSE Unwrap(link_history[LinkNextId - 1].snapshot.character_snapshots[1].translation)

\* The velocity the server has for the client's character: at rest where it
\* moved to, creeping on odd snapshots where it stayed.
LinkVelocity(n, moved) == IF moved THEN 0 ELSE n % 2

\* Snapshot n as snapshot_send_system builds it (server.rs 144-155), with
\* the last input applied for the client.
LinkTruth(n, processed, moved) ==
    [snapshot |->
         MakeSnapshot(n, None,
                      SeqMap(from_character,
                             <<Character(local_player,
                                         LinkTranslation(processed, moved),
                                         LinkVelocity(n, moved)),
                               Character(RemoteClient, RemoteTranslation(n),
                                         RemoteVelocity)>>),
                      now),
     latest_processed_input |-> processed]

\* The server has applied no input of the client, or the input with the id
\* of the snapshot.
LinkProcessedChoices(n) == {None, Some(CapturedInput(n, 0))}

LinkBaselines == {None} \cup {Some(b) : b \in DOMAIN link_history}

\* SnapshotHistory.snapshots: the snapshots built so far, oldest first.
LinkSnapshots ==
    LET ids == SetToSeq(DOMAIN link_history)
    IN  [i \in 1..Len(ids) |-> link_history[ids[i]].snapshot]

\* Snapshot n is built, the message for the client is made against the
\* baseline it acknowledged (server.rs 167-207), and receive_snapshot_system
\* processes it (client.rs 81-162).
LinkDeliver(n, baseline, processed, moved) ==
    /\ link_pc = "frame"
    /\ n < MaxLinkDeliveries
    /\ link_client.input_history.input_group_for_next_fixed_tick # <<>>
    /\ baseline \in LinkBaselines
    /\ LET truth == LinkTruth(n, processed, moved)
           message == SnapshotFor(truth.snapshot,
                                  [latest_processed_input |-> processed,
                                   client_latest_processed_snapshot_id |-> baseline],
                                  LinkSnapshots)
       IN  /\ link_client' =
                  ProcessSnapshot([link_client EXCEPT !.ignored = <<>>, !.corrected = <<>>],
                                  DeserializeSnapshot(message))
           /\ link_history' = [x \in DOMAIN link_history \cup {n} |->
                                  IF x = n THEN truth ELSE link_history[x]]
           /\ link_message' = Some([message |-> message, baseline |-> baseline])
    /\ link_pc' = "update"
    /\ UNCHANGED <<diffVars, now, serverVars, clientVars, cli, visualVars, moveVars,
                   link_sent>>

\* The process stalls for the time the input window retains.
LinkStall ==
    /\ link_pc = "frame"
    /\ link_client.input_history.input_groups # <<>>
    /\ RetainedGroups(link_client.input_history.input_groups, now)
           = link_client.input_history.input_groups
    /\ now' = now + RetainMillis
    /\ UNCHANGED <<diffVars, serverVars, clientVars, frameVars>>

\* Update: capture_inputs_system (input.rs 21-95).
LinkFrame ==
    /\ link_pc = "frame"
    /\ LinkNextId < MaxLinkDeliveries
    /\ link_client.input_history.input_group_for_next_fixed_tick = <<>>
    /\ link_client' = CaptureLoop(link_client, 1)
    /\ UNCHANGED <<diffVars, now, serverVars, clientVars, cli, visualVars, moveVars,
                   link_history, link_message, link_sent, link_pc>>

\* FixedUpdate: apply_inputs_system (input.rs 97-136).
LinkApply ==
    /\ link_pc = "update"
    /\ LET i == FindIndex(LAMBDA c : c.owner_client_id = local_player,
                          link_client.characters)
       IN  link_client' = IF i = 0 THEN link_client ELSE ApplyInputs(link_client, i)
    /\ link_pc' = "post"
    /\ UNCHANGED <<diffVars, now, serverVars, clientVars, cli, visualVars, moveVars,
                   link_history, link_message, link_sent>>

\* FixedPostUpdate: send_inputs_system (client.rs 46-55).
LinkSend ==
    /\ link_pc = "post"
    /\ link_sent' = Some(PlayerInputMessageOf(link_client.input_history))
    /\ link_pc' = "frame"
    /\ UNCHANGED <<diffVars, now, serverVars, clientVars, cli, visualVars, moveVars,
                   link_client, link_history, link_message>>

InitLinkRun ==
    /\ InitDiffIdle /\ InitClock /\ InitClient /\ InitServer
    /\ InitVisualsIdle /\ InitMovementIdle
    /\ env_stalls = 0
    /\ cli = "Client"
    /\ link_client = LinkStart
    /\ link_history = <<>>
    /\ link_message = None
    /\ link_sent = None
    /\ link_pc = "frame"

NextLink ==
    \/ \E baseline \in LinkBaselines : \E processed \in LinkProcessedChoices(LinkNextId) :
           \E moved \in BOOLEAN : LinkDeliver(LinkNextId, baseline, processed, moved)
    \/ LinkStall
    \/ LinkFrame
    \/ LinkApply
    \/ LinkSend

SpecLink == InitLinkRun /\ [][NextLink]_vars

(***************************************************************************)
(* Properties of the snapshots as the client applies them.                 *)
(***************************************************************************)
LinkDeliverStep == link_pc = "frame" /\ link_pc' = "update"
LinkSendStep == link_pc = "post" /\ link_pc' = "frame"

\* The snapshot message of the step, and the snapshot the server built.
Delivered == Unwrap(link_message').message
Built == link_history'[Delivered.id].snapshot

\* What the server held for the character of owner when it built the snapshot.
HeldFor(owner) == EntryFor(Built.character_snapshots, owner)[1]

\* C23: when the snapshot message delivered triggers a correction, the local
\* character has, after the overwrite and before the replay, the translation
\* and the velocity the server held for it when it built that snapshot,
\* whether the message is the full snapshot or a diff against a baseline
\* the client had acknowledged.
C23_CorrectionOverwrites ==
    [][(LinkDeliverStep /\ link_client'.corrected # <<>>) =>
           /\ link_client'.corrected[1].overwritten.translation
                  = Unwrap(HeldFor(local_player).translation)
           /\ link_client'.corrected[1].overwritten.velocity
                  = Unwrap(HeldFor(local_player).velocity)
      ]_vars

\* C26: right after the client has processed a snapshot, every character
\* that is not its own has the translation and the velocity the server held
\* for it when it built that snapshot, whichever processed snapshot the
\* server diffed against.
C26_RemoteConverges ==
    [][LinkDeliverStep =>
           \A i \in 1..Len(link_client'.characters) :
               LET c == link_client'.characters[i]
               IN  c.owner_client_id # local_player =>
                       /\ c.translation = Unwrap(HeldFor(c.owner_client_id).translation)
                       /\ c.velocity = Unwrap(HeldFor(c.owner_client_id).velocity)
      ]_vars

\* The translations reached after each input of todo, starting from c.
TranslationsAlong(c, todo) ==
    [j \in 1..Len(todo) |-> AfterInputs(c, SubSeq(todo, 1, j)).translation]

IdsOf(inputs) == [j \in 1..Len(inputs) |-> inputs[j].id]

LocalOf(st) ==
    st.characters[FindIndex(LAMBDA c : c.owner_client_id = local_player, st.characters)]

\* C24: when a snapshot with processed-input id k triggers a correction, the
\* replay applies the inputs of the retained window with id > k and no other
\* input, each once, in ascending id order, each with the tick divided by
\* the length of its group; the inputs with id <= k keep their recorded
\* final translation, the in-progress batch is neither applied nor changed,
\* and every replayed input records the translation reached after it in the
\* replay.
C24_ReplaySet ==
    [][(LinkDeliverStep /\ link_client'.corrected # <<>>) =>
        LET window == link_client.input_history.input_groups
            batch == link_client.input_history.input_group_for_next_fixed_tick
            after == link_client'.input_history
            entry == link_client'.corrected[1]
            k == entry.latest_processed_input_id
            todo == InputsAfter(window, k)
            later == SeqFilter(LAMBDA input : input.id > k, Flatten(after.input_groups))
        IN  /\ entry.replayed = [j \in 1..Len(todo) |-> <<todo[j][1].id, todo[j][2]>>]
            /\ StrictlyIncreasing([j \in 1..Len(todo) |-> todo[j][1].id])
            /\ \A j \in 1..Len(entry.replayed) :
                   /\ entry.replayed[j][1] > k
                   /\ \A b \in 1..Len(batch) : batch[b].id # entry.replayed[j][1]
            /\ after.input_group_for_next_fixed_tick = batch
            /\ SeqFilter(LAMBDA input : input.id <= k, Flatten(after.input_groups))
                   = SeqFilter(LAMBDA input : input.id <= k, Flatten(window))
            /\ IdsOf(Flatten(after.input_groups)) = IdsOf(Flatten(window))
            /\ [j \in 1..Len(later) |-> later[j].final_translation]
                   = TranslationsAlong(entry.overwritten, todo)
            /\ LocalOf(link_client').translation
                   = AfterInputs(entry.overwritten, todo).translation
      ]_vars

\* C24 witness: a correction has replayed inputs of two groups of different
\* lengths, after the input the server processed, which is in the window
\* with an earlier input, while a captured input waits in the in-progress
\* batch.
C24_Witness ==
    /\ link_pc = "update"
    /\ link_client.input_history.input_group_for_next_fixed_tick # <<>>
    /\ link_client.corrected # <<>>
    /\ LET entry == link_client.corrected[1]
           inputs == Flatten(link_client.input_history.input_groups)
       IN  /\ Len(entry.replayed) >= 2
           /\ \E x, y \in 1..Len(entry.replayed) : entry.replayed[x][2] # entry.replayed[y][2]
           /\ \E j \in 1..Len(inputs) : inputs[j].id = entry.latest_processed_input_id
           /\ \E j \in 1..Len(inputs) : inputs[j].id < entry.latest_processed_input_id

\* C25: after receive_snapshot_system has processed a snapshot message,
\* whether it only acknowledged it, applied it, or made a correction with a
\* replay, every character has the pitch and yaw it had before that message.
C25_OrientationKept ==
    [][LinkDeliverStep =>
           /\ Len(link_client'.characters) = Len(link_client.characters)
           /\ \A i \in 1..Len(link_client.characters) :
                  /\ link_client'.characters[i].pitch = link_client.characters[i].pitch
                  /\ link_client'.characters[i].yaw = link_client.characters[i].yaw
      ]_vars

\* C25 witness: a correction has replayed inputs, the last of them with a yaw
\* that is not the yaw of the local character.
C25_Witness ==
    /\ link_pc = "update"
    /\ link_client.corrected # <<>>
    /\ LET replayed == link_client.corrected[1].replayed
       IN  /\ replayed # <<>>
           /\ KeyOf(replayed[Len(replayed)][1])[3] # LocalOf(link_client).yaw

\* The entry of the delivered message for the local character, if any.
DeliveredLocal == EntryFor(Delivered.character_snapshots, local_player)

\* The delivered snapshot cannot be compared with the client's prediction:
\* it carries no processed-input id, or one that is not in the window, or
\* no translation for the local character.
NotComparable ==
    \/ Delivered.latest_processed_input_id = None
    \/ \A j \in 1..Len(Flatten(link_client.input_history.input_groups)) :
           Flatten(link_client.input_history.input_groups)[j].id
               # Unwrap(Delivered.latest_processed_input_id)
    \/ DeliveredLocal = <<>>
    \/ DeliveredLocal[1].translation = None

\* C29: when the client processes a fresh snapshot that carries no
\* processed-input id, or one that is not in the retained window, or no
\* entry or no translation for the local character, the local character and
\* the window stay as they are and nothing is replayed, the snapshot's id
\* becomes latest_processed_snapshot_id, and the input message sent at the
\* end of the tick acknowledges that id.
C29_NotComparable ==
    [][/\ (LinkDeliverStep /\ NotComparable) =>
              /\ LocalOf(link_client') = LocalOf(link_client)
              /\ link_client'.corrected = <<>>
              /\ link_client'.input_history.input_groups
                     = link_client.input_history.input_groups
              /\ link_client'.input_history.latest_processed_snapshot_id
                     = Some(Delivered.id)
       /\ LinkSendStep =>
              Unwrap(link_sent').latest_processed_snapshot_id
                  = Some(Unwrap(link_message).message.id)
      ]_vars

\* C29 witness: the snapshot processed in the tick carried a translation for
\* the local character, away from where the client is, and the id of an
\* input the window no longer holds; nothing was corrected and the input
\* message sent acknowledges the snapshot.
C29_Witness ==
    /\ link_pc = "frame"
    /\ link_message # None
    /\ link_sent # None
    /\ LET message == Unwrap(link_message).message
           entry == EntryFor(message.character_snapshots, local_player)
           inputs == Flatten(link_client.input_history.input_groups)
       IN  /\ message.latest_processed_input_id # None
           /\ \A j \in 1..Len(inputs) :
                  inputs[j].id # Unwrap(message.latest_processed_input_id)
           /\ entry # <<>>
           /\ entry[1].translation # None
           /\ Unwrap(entry[1].translation) # LocalOf(link_client).translation
           /\ link_client.corrected = <<>>
           /\ Unwrap(link_sent).latest_processed_snapshot_id = Some(message.id)

(***************************************************************************)
(* Properties of the server's send loop and input queue.                   *)
(***************************************************************************)
\* C27: every snapshot message of a tick, full or diffed, carries as its
\* processed-input id the id of the last input the server applied for the
\* client it is sent to, or none when the server has applied no input of
\* that client, whatever was written for the clients served before it.
C27_OwnProcessedInput ==
    [][SnapshotSendStep =>
        \A i \in 1..Len(snapshots_sent') :
            LET c == snapshots_sent'[i].to
                applied == input_buffer[c].latest_processed_input
            IN  snapshots_sent'[i].message.latest_processed_input_id
                    = IF IsSome(applied) THEN Some(Unwrap(applied).id) ELSE None
      ]_vars

\* C27 witness: two clients were sent the snapshot of a tick, the first,
\* diffed against the snapshot it acknowledged, with the id of its last
\* input, the second with another id, the one of its own last input.
C27_Witness ==
    /\ server_pc = "pre"
    /\ Len(snapshots_sent) = 2
    /\ snapshots_sent[1].message.latest_processed_input_id # None
    /\ snapshots_sent[2].message.latest_processed_input_id # None
    /\ snapshots_sent[1].message.latest_processed_input_id
           # snapshots_sent[2].message.latest_processed_input_id
    /\ IsSome(input_buffer[snapshots_sent[1].to].client_latest_processed_snapshot_id)
    /\ \E i \in 1..Len(snapshots_sent[1].message.character_snapshots) :
           snapshots_sent[1].message.character_snapshots[i].velocity = None

ReceiveInputsStep ==
    /\ server_pc = "pre"
    /\ "receive" \notin server_pre_done
    /\ "receive" \in server_pre_done' \/ server_pc' = "update"

\* The batches of the messages waiting in the transport for client c, as
\* they are deserialized, in arrival order.
ArrivedBatches(c) ==
    [j \in 1..Len(server_inbox[c]) |-> SeqMap(DeserializeInput, server_inbox[c][j].inputs)]

NonEmptyBatches(input_groups) == SeqFilter(LAMBDA g : g # <<>>, input_groups)

\* C28: receive_inputs_system appends the batch of every message received
\* for a client to that client's queue, in arrival order, keeping what was
\* queued, so that k messages add k batches; after input_processing_system
\* the queue of every client that owns a character is empty, and when a
\* non-empty batch was queued the client's last-applied input is the last
\* entry of the last non-empty batch.
C28_QueueAppendedAndDrained ==
    [][/\ ReceiveInputsStep =>
              \A c \in server_clients :
                  LET before == IF c \in DOMAIN input_buffer
                                THEN input_buffer[c].input_groups ELSE <<>>
                  IN  (c \in DOMAIN input_buffer \/ server_inbox[c] # <<>>) =>
                          /\ c \in DOMAIN input_buffer'
                          /\ input_buffer'[c].input_groups = before \o ArrivedBatches(c)
       /\ InputProcessingStep =>
              \A i \in 1..Len(characters) :
                  LET o == characters[i].owner_client_id
                  IN  o \in DOMAIN input_buffer =>
                          /\ input_buffer'[o].input_groups = <<>>
                          /\ LET filled == NonEmptyBatches(input_buffer[o].input_groups)
                                 last == filled[Len(filled)]
                             IN  filled # <<>> =>
                                     /\ IsSome(input_buffer'[o].latest_processed_input)
                                     /\ DeserializeInput(Unwrap(input_buffer'[o].latest_processed_input))
                                            = last[Len(last)]
      ]_vars

\* C28 witness: three batches were queued for a client, one of them empty,
\* on top of an input applied before; the two inputs of the others were
\* applied, the queue is empty and the last-applied input is the later one.
C28_Witness ==
    /\ server_pc = "post"
    /\ \E o \in Clients :
        LET mine == StepsOf(o, applied_steps)
        IN  /\ Len(mine) = 2
            /\ \A k \in 1..2 : mine[k].div = 3 /\ mine[k].queued
            /\ mine[1].id > 0
            /\ o \in DOMAIN input_buffer
            /\ input_buffer[o].input_groups = <<>>
            /\ Unwrap(input_buffer[o].latest_processed_input).id = mine[2].id

(***************************************************************************)
(* Properties of the smoothing step.                                       *)
(***************************************************************************)
MaxDivergence == 8
\* Divergences of the rendered from the simulated translation, in units.
Divergences == 0..MaxDivergence

\* The visual i is the one of the client's own predicted character and is
\* rendered further from it than the threshold.
Diverging(i) ==
    /\ cli \in ClientVariants
    /\ visuals[i].character_entity \in 1..Len(vis_characters)
    /\ vis_characters[visuals[i].character_entity].owner_client_id = LocalPlayerId
    /\ AboveSmoothThreshold(Abs(visuals[i].translation
                                - vis_characters[visuals[i].character_entity].translation))

\* C30: when post_fixed_player_visuals_system smooths the visual of the
\* client's own character, rendered further from the simulation than the
\* threshold, it moves last_physics_translation by a factor that lies
\* between SMOOTH_CORRECTION_STEP_MIN and SMOOTH_CORRECTION_STEP_MAX, no
\* larger divergence gets a smaller factor, and some divergence above the
\* threshold gets a factor above the minimum.
C30_DynamicStep ==
    [][PostFixedStep =>
        \A i \in 1..Len(visuals) :
            Diverging(i) =>
                LET c == vis_characters[visuals[i].character_entity]
                    diff == Abs(visuals[i].translation - c.translation)
                IN  /\ dynamic_step(diff) >= SMOOTH_CORRECTION_STEP_MIN * SmoothUnit
                    /\ dynamic_step(diff) <= SMOOTH_CORRECTION_STEP_MAX * SmoothUnit
                    /\ visuals'[i].last_physics_translation
                           = lerp(visuals[i].translation, c.translation,
                                  dynamic_step(diff), SmoothStepDen)
                    /\ \A d \in Divergences :
                           d >= diff => dynamic_step(d) >= dynamic_step(diff)
                    /\ \E d \in Divergences :
                           /\ AboveSmoothThreshold(d)
                           /\ dynamic_step(d) > SMOOTH_CORRECTION_STEP_MIN * SmoothUnit
      ]_vars

(***************************************************************************)
(* Specification SpecReorder: the server behind a channel that duplicates  *)
(* and reorders.  The clients connect before the first tick, never         *)
(* acknowledge and send one input per message, with fresh ids; a copy of   *)
(* any message a client has sent may reach the server again at any later   *)
(* time.                                                                   *)
(***************************************************************************)
\* A copy of the message that carried input id of client c reaches the
\* server's transport, after the original.
LateCopyArrives(c, id) ==
    /\ AtTickBoundary
    /\ c \in server_clients
    /\ id < env_next_input[c]
    /\ env_messages < MaxMessages
    /\ env_messages' = env_messages + 1
    /\ server_inbox' = [server_inbox EXCEPT ![c] = Append(@,
           [latest_processed_snapshot_id |-> None,
            inputs |-> <<CapturedInput(id, now)>>])]
    /\ UNCHANGED <<diffVars, frameVars, clientVars, now, server_clients, server_events,
                   input_buffer, characters, snapshot_history, server_pc, server_pre_done,
                   reliable_sent, snapshots_sent, applied_steps, env_next_input,
                   env_seen, env_stalls, env_heard>>

NextReorder ==
    \/ handle_connection_events_system
    \/ receive_inputs_system
    \/ input_processing_system
    \/ snapshot_send_system
    \/ \E c \in Clients : snapshot_history.next_id = 0 /\ ClientConnects(c)
    \/ \E c \in Clients : server_inbox[c] = <<>> /\ ClientSendsInputs(c, None, 1)
    \/ \E c \in Clients : \E id \in 0..(MaxMessages - 1) :
           server_inbox[c] = <<>> /\ LateCopyArrives(c, id)

InitReorderRun == InitIdle /\ InitServer /\ env_stalls = 0 /\ cli = "ListenServer"

SpecReorder == InitReorderRun /\ [][NextReorder]_vars

(***************************************************************************)
(* Properties of the input messages, from the client to the server.        *)
(***************************************************************************)
InputIdsOf(sent) ==
    IF sent = None THEN {}
    ELSE {Unwrap(sent).inputs[j].id : j \in 1..Len(Unwrap(sent).inputs)}

\* C31: no input id is in two messages of send_inputs_system: the message
\* sent at the end of a fixed tick carries none of the inputs of the message
\* sent at the end of the tick before, also when the tick had no new batch.
C31_InputSentOnce ==
    [][SendInputsStep => InputIdsOf(client_sent') \cap InputIdsOf(client_sent) = {}]_vars

\* The processed-input id of an Option of an input, None below every id.
ProcessedId(latest) == IF IsSome(latest) THEN Unwrap(latest).id ELSE -1

\* The processed-input id of the message sent to client c, if one was sent.
SentProcessedIds(sent, c) ==
    {IF IsSome(sent[i].message.latest_processed_input_id)
     THEN Unwrap(sent[i].message.latest_processed_input_id) ELSE -1 :
         i \in {j \in 1..Len(sent) : sent[j].to = c}}

\* C32: whatever copies of a client's input messages arrive and in whatever
\* order, input_processing_system never leaves the server's last-applied
\* input of a client with a smaller id than before, and the processed-input
\* id of the snapshot sent to a client in a tick is not below the one sent
\* to it in the tick before.
C32_ProcessedIdMonotonic ==
    [][/\ InputProcessingStep =>
              \A c \in DOMAIN input_buffer :
                  ProcessedId(input_buffer'[c].latest_processed_input)
                      >= ProcessedId(input_buffer[c].latest_processed_input)
       /\ SnapshotSendStep =>
              \A c \in Clients :
                  \A before \in SentProcessedIds(snapshots_sent, c) :
                      \A after \in SentProcessedIds(snapshots_sent', c) : after >= before
      ]_vars

====
